---- MODULE Spec2Model ----
(***************************************************************************)
(* A model of jaraco.itertools: the keyed stream partitioner               *)
(* (GroupbySaved / FetchingQueue / bisect) and the ordered revision        *)
(* collator (collate_revs and its helpers), the call-counted predicates    *)
(* (Count, LessThanNBlanks, LessThanNConsecutiveBlanks), the unpacking     *)
(* helpers (one, maybe_single), the chunking helpers, duplicates,          *)
(* partition_items and window.                                             *)
(***************************************************************************)
EXTENDS Integers, Sequences, FiniteSets, TLC

VARIABLES
    source,      \* the sequence handed to GroupbySaved / bisect (never changes)
    func,        \* GroupbySaved.func, by name: "id", "bool" or "mod2"
    sequence,    \* GroupbySaved.sequence: what the upstream iterator still holds
    queues,      \* GroupbySaved.queues: an OrderedDict, as a list of [key, items]
    returned,    \* per key, the items next() on its queue has returned so far
    result,      \* what the last call returned or raised
    halves,      \* bisect: the two iterables it returned
    halfOut,     \* bisect: what iterating each of the two has yielded so far
    halfEnded,   \* bisect: whether iterating each of the two hit StopIteration
    old,         \* collate_revs: the argument old
    new,         \* collate_revs: the argument new
    key,         \* collate_revs: the argument key, by name: "id" or "lower"
    old_items,   \* collate_revs: OrderedDict, as a list of <<key, item>>
    new_items,   \* collate_revs: OrderedDict, as a list of <<key, item>>
    out,         \* collate_revs: the items yielded so far
    calls,       \* collate_revs: the argument pairs merge was called with
    crPc,        \* collate_revs: "start", "loop" or "done" ("idle": no call)
    predClass,   \* which predicate class the object is ("none": no object)
    limit,       \* the predicate's self.limit
    count,       \* the predicate's self.count
    last,        \* LessThanNConsecutiveBlanks.last
    history,     \* the calls made so far: [arg, outcome]
    unInput,     \* one / maybe_single: the items of the argument
    unIter,      \* one / maybe_single: what the argument's iterator still holds
    unResult,    \* one / maybe_single: what the call returned or raised
    chImpl,      \* which chunking helper runs ("none": no call)
    chInput,     \* chunking: the argument, [type, items]
    chSize,      \* chunking: the chunk size
    chIter,      \* chunking: what the input iterator still holds
    chunks,      \* chunking: the chunks yielded so far
    chDone,      \* chunking: the generator has ended
    dupA,        \* duplicates: the first iterable
    dupB,        \* duplicates: the second iterable
    dupKey,      \* duplicates: the key function, by name
    dupOut,      \* duplicates: the tuples yielded
    dupPc,       \* duplicates: "start", "iter" or "done" ("idle": no call)
    zipped,      \* duplicates: what heapq.merge has still to give
    piCount,     \* partition_items: the argument count
    bin_size,    \* partition_items: the argument bin_size
    bins,        \* partition_items: the list bins
    piI,         \* partition_items: the loop variable i, as the next value
    piPc,        \* partition_items: "start", "loop" or "done" ("idle": no call)
    winInput,    \* window: the items of the argument
    pre_size,    \* window: the argument pre_size
    post_size,   \* window: the argument post_size
    winOut,      \* window: the triples yielded
    winPc        \* window: "start" or "done" ("idle": no call)
VARIABLES
    pre_iter,    \* window: what the zipped pre_iter has still to give
    winIter,     \* window: what the zipped iter has still to give
    post_iter    \* window: what the zipped post_iter has still to give
VARIABLES
    pkInput,        \* Peekable: the sequence it was made over
    iterator,       \* Peekable: what self.iterator has still to give
    iteratorIsSelf, \* Peekable: self.iterator is the Peekable itself
    pkLog,          \* Peekable: the calls made and what each returned
    isSmallLimit,   \* takewhile_peek: predicate is lambda n: n < isSmallLimit
    twBefore,       \* takewhile_peek: what the Peekable held at the call
    twOut,          \* takewhile_peek: the items yielded
    twPc            \* takewhile_peek: "iter" or "done" ("none": no call)
VARIABLES
    reInput,     \* Reusable: the sequence it was made over
    saved,       \* Reusable: what self.__saved has still to give
    reIterator,  \* Reusable: what self.__iterator has still to give
    reLog        \* Reusable: the calls made and what each returned
VARIABLES
    mrSeq,       \* make_rows: seq
    num_columns, \* make_rows: num_columns
    mrRows,      \* make_rows: what the returned zip has still to give
    mrOut,       \* make_rows: the rows yielded
    mrPc         \* make_rows: "start", "iter" or "done" ("idle": no call)
VARIABLES
    aoInput,     \* assert_ordered: the iterable
    aoKey,       \* assert_ordered: key, "id" or "neg"
    comp,        \* assert_ordered: comp, "le" or "ge"
    aoPairs,     \* assert_ordered: what pairwise(iterable) has still to give
    aoPair,      \* assert_ordered: the loop variable pair, << >> while unbound
    aoOut,       \* assert_ordered: the items yielded
    aoPc,        \* assert_ordered: "loop", "last", "done" or the error raised
    brInput,     \* balanced_rows: the iterable
    brN,         \* balanced_rows: n
    allocations, \* balanced_rows: the allocations the loop has still to take
    brIterable,  \* balanced_rows: what iterable has still to give
    brOut,       \* balanced_rows: the rows yielded, each [items, fill]
    brPc         \* balanced_rows: "start", "iter" or "done" ("idle": no call)

gsVars == <<source, func, sequence, queues, returned, result>>
bisVars == <<halves, halfOut, halfEnded>>
crVars == <<old, new, key, old_items, new_items, out, calls, crPc>>
predVars == <<predClass, limit, count, last, history>>
unVars == <<unInput, unIter, unResult>>
chVars == <<chImpl, chInput, chSize, chIter, chunks, chDone>>
dupVars == <<dupA, dupB, dupKey, dupOut, dupPc, zipped>>
piVars == <<piCount, bin_size, bins, piI, piPc>>
winVars == <<winInput, pre_size, post_size, winOut, winPc,
            pre_iter, winIter, post_iter>>
\* the variables of the helpers that are no part of the partitioner, bisect
\* or collate_revs
helperVars == <<predVars, unVars, chVars, dupVars, piVars, winVars>>
pkVars == <<pkInput, iterator, iteratorIsSelf, pkLog,
           isSmallLimit, twBefore, twOut, twPc>>
\* the variables of the iterator wrappers and of the row helpers
reVars == <<reInput, saved, reIterator, reLog>>
mrVars == <<mrSeq, num_columns, mrRows, mrOut, mrPc>>
aoVars == <<aoInput, aoKey, comp, aoPairs, aoPair, aoOut, aoPc>>
brVars == <<brInput, brN, allocations, brIterable, brOut, brPc>>
otherVars == <<pkVars, reVars, mrVars, aoVars, brVars>>
vars == <<source, func, sequence, queues, returned, result,
          halves, halfOut, halfEnded,
          old, new, key, old_items, new_items, out, calls, crPc,
          predClass, limit, count, last, history,
          unInput, unIter, unResult,
          chImpl, chInput, chSize, chIter, chunks, chDone,
          dupA, dupB, dupKey, dupOut, dupPc, zipped,
          piCount, bin_size, bins, piI, piPc,
          winInput, pre_size, post_size, winOut, winPc,
          pre_iter, winIter, post_iter,
          pkInput, iterator, iteratorIsSelf, pkLog,
          isSmallLimit, twBefore, twOut, twPc,
          reInput, saved, reIterator, reLog,
          mrSeq, num_columns, mrRows, mrOut, mrPc,
          aoInput, aoKey, comp, aoPairs, aoPair, aoOut, aoPc,
          brInput, brN, allocations, brIterable, brOut, brPc>>

(***************************************************************************)
(* Bounds                                                                  *)
(***************************************************************************)
MaxLen == 3        \* longest source sequence of the partitioner
MaxItem == 2       \* the partitioner's items are the integers 0..MaxItem
MaxN == 3          \* largest n passed to get_first_n_queues
MaxRevs == 3       \* longest old / new handed to collate_revs
MaxLimit == 3      \* largest limit of a call-counted predicate
MaxCalls == 6      \* most calls made on one predicate
MaxUnLen == 3      \* longest argument of one / maybe_single
MaxChunkInput == 4 \* longest input of a chunking helper
MaxChunkSize == 3  \* largest chunk size
MaxDupLen == 2     \* longest argument of duplicates
MaxCount == 11     \* largest count given to partition_items
MaxBinSize == 3    \* largest bin_size given to partition_items
MaxWinLen == 3     \* longest iterable given to window
MaxWinSize == 2    \* largest pre_size / post_size given to window
MaxPkLen == 3      \* longest sequence a Peekable is made over
MaxPkCalls == 5    \* most calls logged on one Peekable
MaxReLen == 2      \* longest sequence a Reusable is made over
MaxReCalls == 6    \* most calls logged on one Reusable
MaxRowLen == 4     \* longest seq given to make_rows
MaxColumns == 3    \* largest num_columns given to make_rows
MaxOrdLen == 3     \* longest iterable given to assert_ordered
MaxBalLen == 4     \* longest iterable given to balanced_rows
MaxBalN == 3       \* largest n given to balanced_rows

RECURSIVE SeqsUpTo(_, _)
SeqsUpTo(S, n) ==
    IF n = 0 THEN {<< >>}
    ELSE LET shorter == SeqsUpTo(S, n - 1)
         IN  shorter \cup {Append(s, x) : s \in shorter, x \in S}

RECURSIVE Filter(_, _, _)
\* the items of s whose value under f (a function on items) is v, in order
Filter(s, f, v) ==
    IF s = << >> THEN << >>
    ELSE IF f[Head(s)] = v THEN << Head(s) >> \o Filter(Tail(s), f, v)
         ELSE Filter(Tail(s), f, v)

(***************************************************************************)
(* GroupbySaved and FetchingQueue                                          *)
(***************************************************************************)
GsItems == 0 .. MaxItem
GsFuncs == {"id", "bool", "mod2"}

\* self.func(item).  bool() gives True / False, which as dict keys are the
\* integers 1 / 0 (True == 1 and hash(True) == hash(1) in Python).
ApplyFunc(f, item) ==
    CASE f = "id"   -> item
      [] f = "bool" -> IF item # 0 THEN 1 ELSE 0
      [] f = "mod2" -> item % 2

FuncOf(f) == [item \in GsItems |-> ApplyFunc(f, item)]
GsKeys == GsItems

\* key in self.queues
HasQueue(qs, k) == \E i \in 1 .. Len(qs) : qs[i].key = k
QueueIndex(qs, k) == CHOOSE i \in 1 .. Len(qs) : qs[i].key = k
\* the buffered items of the queue of key k (Queue.queue)
Buffered(qs, k) == IF HasQueue(qs, k) THEN qs[QueueIndex(qs, k)].items ELSE << >>

\* FetchingQueue.enqueue on the queue self.queues.setdefault(key, ...)
EnqueueDropsItem(qs, k, item) ==
    IF HasQueue(qs, k) THEN qs
    ELSE Append(qs, [key |-> k, items |-> << item >>])

Enqueue(qs, k, item) ==
    IF HasQueue(qs, k)
    THEN [qs EXCEPT ![QueueIndex(qs, k)].items = Append(@, item)]
    ELSE Append(qs, [key |-> k, items |-> << item >>])

\* A GroupbySaved in the middle of a call: its fields and what the call has
\* raised so far ("" for nothing).
GsState(sq, qs) == [sequence |-> sq, queues |-> qs, raised |-> "", got |-> -1]

\* __fetch__ queueing the item under the item itself, not under func(item)
FetchKeyedByItem(g, f) ==
    IF g.sequence = << >>
    THEN [g EXCEPT !.raised = "StopIteration"]
    ELSE LET item == Head(g.sequence)
         IN  [g EXCEPT !.sequence = Tail(g.sequence),
                       !.queues = Enqueue(g.queues, item, item)]

\* GroupbySaved.__fetch__: next(self.sequence) raises StopIteration on an
\* exhausted upstream; otherwise the item is queued under self.func(item).
__fetch__(g, f) ==
    IF g.sequence = << >>
    THEN [g EXCEPT !.raised = "StopIteration"]
    ELSE LET item == Head(g.sequence)
         IN  [g EXCEPT !.sequence = Tail(g.sequence),
                       !.queues = Enqueue(g.queues, ApplyFunc(f, item), item)]

\* what __find_queue__ raises when __fetch__ raised StopIteration
FindQueueLeaksStop(raised) == raised

FindQueueRaises(raised) == IF raised = "StopIteration" THEN "KeyError" ELSE raised

RECURSIVE __find_queue__(_, _, _)
\* GroupbySaved.__find_queue__
__find_queue__(g, f, k) ==
    IF HasQueue(g.queues, k) THEN g
    ELSE LET h == __fetch__(g, f)
         IN  IF h.raised # "" THEN [h EXCEPT !.raised = FindQueueRaises(h.raised)]
             ELSE __find_queue__(h, f, k)

\* a __getitem__ that fetches one item ahead for a key that has its queue
GetItemFetchesAhead(g, f, k) ==
    IF HasQueue(g.queues, k)
    THEN LET h == __fetch__(g, f)
         IN  IF h.raised # "" THEN g ELSE h
    ELSE __find_queue__(g, f, k)

\* GroupbySaved.__getitem__
__getitem__(g, f, k) ==
    IF HasQueue(g.queues, k) THEN g ELSE __find_queue__(g, f, k)

RECURSIVE __next__(_, _, _)
\* FetchingQueue.__next__ on the queue of key k, whose fetcher is __fetch__
__next__(g, f, k) ==
    IF Buffered(g.queues, k) = << >>
    THEN LET h == __fetch__(g, f)
         IN  IF h.raised # "" THEN h ELSE __next__(h, f, k)
    ELSE LET i == QueueIndex(g.queues, k)
         IN  [g EXCEPT !.got = Head(g.queues[i].items),
                       !.queues[i].items = Tail(g.queues[i].items)]

RECURSIVE FetchUntil(_, _, _)
\* the loop of get_first_n_queues; StopIteration ends it silently
FetchUntil(g, f, n) ==
    IF Len(g.queues) < n
    THEN LET h == __fetch__(g, f)
         IN  IF h.raised # "" THEN g ELSE FetchUntil(h, f, n)
    ELSE g

\* an entry of the list get_first_n_queues returns: a queue, named by its
\* key, or an empty iterable iter([])
QueueRef(k) == [kind |-> "queue", key |-> k]
EmptyIter == [kind |-> "empty", key |-> -1]

\* values = list(self.queues.values()); values.extend(iter([]) for n in
\* range(missing)): range() of a negative number is empty
QueueValues(qs, n) ==
    LET values == [i \in 1 .. Len(qs) |-> QueueRef(qs[i].key)]
        missing == n - Len(values)
    IN  values \o [i \in 1 .. (IF missing > 0 THEN missing ELSE 0) |-> EmptyIter]

NoResult == [op |-> "none", arg |-> -1, outcome |-> "none", item |-> -1,
             list |-> << >>, pulled |-> 0]

GsInit ==
    /\ source \in SeqsUpTo(GsItems, MaxLen)
    /\ func \in GsFuncs
    /\ sequence = source
    /\ queues = << >>
    /\ returned = [k \in GsKeys |-> << >>]
    /\ result = NoResult

\* gs[k]
GetItem(k) ==
    /\ LET g == __getitem__(GsState(sequence, queues), func, k)
       IN  /\ sequence' = g.sequence
           /\ queues' = g.queues
           /\ result' = [NoResult EXCEPT
                           !.op = "getitem", !.arg = k,
                           !.outcome = IF g.raised = "" THEN "queue" ELSE g.raised,
                           !.pulled = Len(sequence) - Len(g.sequence)]
    /\ UNCHANGED <<source, func, returned>>

\* next(q) for the queue q of key k; a caller can hold q only once it exists
QueueNext(k) ==
    /\ HasQueue(queues, k)
    /\ LET g == __next__(GsState(sequence, queues), func, k)
       IN  /\ sequence' = g.sequence
           /\ queues' = g.queues
           /\ returned' = IF g.raised = ""
                          THEN [returned EXCEPT ![k] = Append(@, g.got)]
                          ELSE returned
           /\ result' = [NoResult EXCEPT
                           !.op = "next", !.arg = k,
                           !.outcome = IF g.raised = "" THEN "item" ELSE g.raised,
                           !.item = g.got,
                           !.pulled = Len(sequence) - Len(g.sequence)]
    /\ UNCHANGED <<source, func>>

\* gs.get_first_n_queues(n)
get_first_n_queues(n) ==
    /\ LET g == FetchUntil(GsState(sequence, queues), func, n)
       IN  /\ sequence' = g.sequence
           /\ queues' = g.queues
           /\ result' = [NoResult EXCEPT
                           !.op = "first_n", !.arg = n, !.outcome = "list",
                           !.list = QueueValues(g.queues, n),
                           !.pulled = Len(sequence) - Len(g.sequence)]
    /\ UNCHANGED <<source, func, returned>>

\* bisect(seq, func): GroupbySaved(seq, func).get_first_n_queues(2)
bisect ==
    /\ halves = << >>
    /\ LET g == FetchUntil(GsState(source, << >>), func, 2)
       IN  /\ sequence' = g.sequence
           /\ queues' = g.queues
           /\ halves' = QueueValues(g.queues, 2)
           /\ halfOut' = [i \in 1 .. Len(QueueValues(g.queues, 2)) |-> << >>]
           /\ halfEnded' = [i \in 1 .. Len(QueueValues(g.queues, 2)) |-> FALSE]
    /\ UNCHANGED <<source, func, returned, result>>

\* one step of list(h) for the i-th iterable h that bisect returned:
\* FetchingQueue.__iter__ ends at the StopIteration of next(self), and
\* iter([]) has nothing to give
HalfNext(i) ==
    /\ i \in 1 .. Len(halves)
    /\ ~halfEnded[i]
    /\ IF halves[i].kind = "queue"
       THEN LET g == __next__(GsState(sequence, queues), func, halves[i].key)
            IN  /\ sequence' = g.sequence
                /\ queues' = g.queues
                /\ halfOut' = IF g.raised = ""
                              THEN [halfOut EXCEPT ![i] = Append(@, g.got)]
                              ELSE halfOut
                /\ halfEnded' = [halfEnded EXCEPT ![i] = (g.raised # "")]
       ELSE /\ halfEnded' = [halfEnded EXCEPT ![i] = TRUE]
            /\ UNCHANGED <<sequence, queues, halfOut>>
    /\ UNCHANGED <<source, func, returned, result, halves>>

(***************************************************************************)
(* collate_revs and its helpers.  Items are Python strings; an OrderedDict *)
(* is the list of its <<key, item>> pairs in insertion order.              *)
(***************************************************************************)
CrItems == {"", "a", "A", "b"}
CrKeyFuncs == {"id", "lower"}

\* None, the result of dict.get for an absent key
None == "<None>"

\* bool(item): the empty string and None are false
Truthy(item) == item # "" /\ item # None

\* key(el): the identity (the default) or str.lower
ApplyKey(kf, el) ==
    CASE kf = "id" -> el
      [] kf = "lower" -> IF el = "A" THEN "a" ELSE IF el = "B" THEN "b" ELSE el

\* key in items
HasKey(items, k) == \E i \in 1 .. Len(items) : items[i][1] = k
KeyIndex(items, k) == CHOOSE i \in 1 .. Len(items) : items[i][1] = k
\* items.get(key)
DictGet(items, k) == IF HasKey(items, k) THEN items[KeyIndex(items, k)][2] ELSE None
\* list(items.values())
DictValues(items) == [i \in 1 .. Len(items) |-> items[i][2]]

\* d[k] = v keeping the first value written for a key
SetItemKeepsFirst(items, k, v) ==
    IF HasKey(items, k) THEN items ELSE Append(items, << k, v >>)

\* d[k] = v on an OrderedDict: a key already present keeps its position and
\* takes the new value
SetItem(items, k, v) ==
    IF HasKey(items, k)
    THEN [items EXCEPT ![KeyIndex(items, k)] = << k, v >>]
    ELSE Append(items, << k, v >>)

RECURSIVE OrderedDict(_, _)
\* collections.OrderedDict((key(el), el) for el in s)
OrderedDict(s, kf) ==
    IF s = << >> THEN << >>
    ELSE LET el == s[Len(s)]
         IN  SetItem(OrderedDict(SubSeq(s, 1, Len(s) - 1), kf), ApplyKey(kf, el), el)

\* items.pop(k, missing): the dict that is left
PopKeeps(items, k) == items

Pop(items, k) ==
    IF HasKey(items, k)
    THEN LET i == KeyIndex(items, k)
         IN  SubSeq(items, 1, i - 1) \o SubSeq(items, i + 1, Len(items))
    ELSE items

\* partition_dict(items, key): takewhile consumes the matching pair, so it is
\* in neither left nor right; without a match left is everything
partition_dict(items, k) ==
    IF HasKey(items, k)
    THEN LET i == KeyIndex(items, k)
         IN  [left |-> SubSeq(items, 1, i - 1),
              item |-> DictGet(items, k),
              right |-> SubSeq(items, i + 1, Len(items))]
    ELSE [left |-> items, item |-> DictGet(items, k), right |-> << >>]

\* _swap_on_miss swapping whatever the item is
SwapAlways(p) == [left |-> p.right, item |-> p.item, right |-> p.left]

\* _swap_on_miss: (before, item, after) if item else (after, item, before)
_swap_on_miss(p) ==
    IF Truthy(p.item) THEN p
    ELSE [left |-> p.right, item |-> p.item, right |-> p.left]

\* the default merge: lambda old, new: new
merge(a, b) == b

\* A collate_revs in the middle of one pass of its outer loop
CrState(oi, o, c) == [old_items |-> oi, out |-> o, calls |-> c]

\* missing = object(): the sentinel that stands for "no such item"
missing == "<missing>"

\* old_items.pop(new_key, missing): the value it returns
PopValue(items, k, default) == IF HasKey(items, k) THEN DictGet(items, k) ELSE default

\* maybe_merge without its filter: every argument is merged
NotMissingKeepsAll(items) == items

\* filter(not_missing, items)
not_missing(items) == SelectSeq(items, LAMBDA ob : ob # missing)

RECURSIVE Reduce(_, _, _)
\* functools.reduce(merge, items) from the accumulator acc on; the calls of
\* merge are logged as argument pairs
Reduce(acc, items, log) ==
    IF items = << >> THEN [value |-> acc, calls |-> log]
    ELSE Reduce(merge(acc, Head(items)), Tail(items),
                Append(log, << acc, Head(items) >>))

\* maybe_merge(*items): reduce(merge, filter(not_missing, items)); it is
\* always called with new_item, which is never missing, as first argument
maybe_merge(items) ==
    LET kept == not_missing(items)
    IN  Reduce(Head(kept), Tail(kept), << >>)

\* yield maybe_merge(new_item, old_items.pop(new_key, missing))
FlushOne(c, new_key, new_item) ==
    LET popped == PopValue(c.old_items, new_key, missing)
        merged == maybe_merge(<< new_item, popped >>)
    IN  [old_items |-> Pop(c.old_items, new_key),
         out |-> Append(c.out, merged.value),
         calls |-> c.calls \o merged.calls]

RECURSIVE Flush(_, _)
\* for new_key, new_item in before.items(): yield maybe_merge(...)
Flush(c, before) ==
    IF before = << >> THEN c
    ELSE Flush(FlushOne(c, before[1][1], before[1][2]), Tail(before))

\* the four worked examples of the docstring
CrExamples ==
    { << <<"a", "b", "c">>, <<"a", "d", "c">> >>,
      << <<"a", "b", "c">>, <<"d">> >>,
      << <<"b", "a">>, <<"a", "b">> >>,
      << <<"a", "c">>, <<"a", "b", "c">> >> }

CrInputs ==
    (SeqsUpTo(CrItems, MaxRevs) \X SeqsUpTo(CrItems, MaxRevs)) \cup CrExamples

\* new_items = OrderedDict(...); old_items = OrderedDict(...)
CollateStart ==
    /\ crPc = "start"
    /\ new_items' = OrderedDict(new, key)
    /\ old_items' = OrderedDict(old, key)
    /\ crPc' = "loop"
    /\ UNCHANGED <<old, new, key, out, calls>>

\* one pass of "for old_key, old_item in _mutable_iter(old_items)":
\* _mutable_iter pops the first pair of old_items
CollateStep ==
    /\ crPc = "loop"
    /\ old_items # << >>
    /\ LET old_key == old_items[1][1]
           old_item == old_items[1][2]
           rest == Tail(old_items)
       IN  IF ~HasKey(new_items, old_key)
           THEN /\ out' = Append(out, old_item)
                /\ old_items' = rest
                /\ UNCHANGED <<new_items, calls>>
           ELSE LET p == _swap_on_miss(partition_dict(new_items, old_key))
                    c == Flush(CrState(rest, out, calls), p.left)
                IN  /\ new_items' = p.right
                    /\ old_items' = c.old_items
                    /\ out' = Append(c.out, merge(old_item, p.item))
                    /\ calls' = Append(c.calls, << old_item, p.item >>)
    /\ UNCHANGED <<old, new, key, crPc>>

\* for item in new_items.values(): yield item
CollateLeftover ==
    /\ crPc = "loop"
    /\ old_items = << >>
    /\ out' = out \o DictValues(new_items)
    /\ crPc' = "done"
    /\ UNCHANGED <<old, new, key, old_items, new_items, calls>>

(***************************************************************************)
(* The call-counted predicates Count, LessThanNBlanks and                  *)
(* LessThanNConsecutiveBlanks.  "CountUtil" is the Count of                *)
(* jaraco/util/itertools.py.  A call gives the object's new fields and     *)
(* "True", "False" or "ValueError".                                        *)
(***************************************************************************)
PredClasses == {"Count", "CountUtil", "LessThanNBlanks", "LessThanNConsecutiveBlanks"}
\* the arguments a predicate is called with: a blank and a non-blank string
PredArgs == {"", "x"}

\* int(not arg)
NotArg(arg) == IF Truthy(arg) THEN 0 ELSE 1

Outcome(b) == IF b THEN "True" ELSE "False"

\* Count.__call__ (jaraco/itertools.py)
CountCall(c, arg) ==
    IF c.count > c.limit
    THEN [c EXCEPT !.outcome = "ValueError"]
    ELSE [c EXCEPT !.count = c.count + 1,
                   !.outcome = Outcome(c.count + 1 <= c.limit)]

\* Count.__call__ (jaraco/util/itertools.py): "if not self.limit" is true
\* of the limit 0 as it is of None
CountUtilCall(c, arg) ==
    IF c.limit = 0
    THEN [c EXCEPT !.count = c.count + 1, !.outcome = "True"]
    ELSE IF c.count > c.limit
         THEN [c EXCEPT !.outcome = "ValueError"]
         ELSE [c EXCEPT !.count = c.count + 1,
                        !.outcome = Outcome(c.count < c.limit)]

\* LessThanNBlanks.__call__
LessThanNBlanksCall(c, arg) ==
    LET n == c.count + NotArg(arg)
    IN  IF n > c.limit
        THEN [c EXCEPT !.count = n, !.outcome = "ValueError"]
        ELSE [c EXCEPT !.count = n, !.outcome = Outcome(n < c.limit)]

\* "if arg: self.count = 0" left out
CountAfterArgNoReset(n, arg) == n

\* if arg: self.count = 0
CountAfterArg(n, arg) == IF Truthy(arg) THEN 0 ELSE n

\* LessThanNConsecutiveBlanks.__call__
LessThanNConsecutiveBlanksCall(c, arg) ==
    LET n == CountAfterArg(c.count + NotArg(arg), arg)
    IN  IF n > c.limit
        THEN [c EXCEPT !.count = n, !.last = Truthy(arg), !.outcome = "ValueError"]
        ELSE [c EXCEPT !.count = n, !.last = Truthy(arg),
                       !.outcome = Outcome(n < c.limit)]

\* __init__ of each class: count = 0, limit as given (last = False)
PredInit ==
    /\ predClass \in PredClasses
    /\ limit \in 0 .. MaxLimit
    /\ count = 0
    /\ last = FALSE
    /\ history = << >>

\* predicate(arg)
Call(arg) ==
    /\ predClass \in PredClasses
    /\ Len(history) < MaxCalls
    /\ LET c == [limit |-> limit, count |-> count, last |-> last, outcome |-> ""]
           d == CASE predClass = "Count" -> CountCall(c, arg)
                  [] predClass = "CountUtil" -> CountUtilCall(c, arg)
                  [] predClass = "LessThanNBlanks" -> LessThanNBlanksCall(c, arg)
                  [] predClass = "LessThanNConsecutiveBlanks" ->
                        LessThanNConsecutiveBlanksCall(c, arg)
       IN  /\ count' = d.count
           /\ last' = d.last
           /\ history' = Append(history, [arg |-> arg, outcome |-> d.outcome])
    /\ UNCHANGED <<predClass, limit>>

(***************************************************************************)
(* one and maybe_single: both unpack their argument with (x,) = argument   *)
(***************************************************************************)
UnItems == {1, 2, 3}
\* the argument is a list, or an iterator over the same items
UnTypes == {"list", "iterator"}

NoUnResult == [op |-> "none", outcome |-> "none", item |-> 0]

\* an unpacking that never looks for a second item
UnpackTakesFirst(it) ==
    IF it = << >>
    THEN [iter |-> it, raised |-> "ValueError", value |-> 0]
    ELSE [iter |-> Tail(it), raised |-> "", value |-> Head(it)]

\* (x,) = it: Python takes one item for x ("not enough values to unpack"
\* if there is none), then asks for one more and raises "too many values
\* to unpack" if it gets it
Unpack(it) ==
    IF it = << >>
    THEN [iter |-> it, raised |-> "ValueError", value |-> 0]
    ELSE IF Tail(it) # << >>
         THEN [iter |-> Tail(Tail(it)), raised |-> "ValueError", value |-> 0]
         ELSE [iter |-> Tail(it), raised |-> "", value |-> Head(it)]

\* maybe_single letting the ValueError of the unpacking through
MaybeSingleRaises(u) ==
    [op |-> "maybe_single",
     outcome |-> IF u.raised = "" THEN "item" ELSE u.raised,
     item |-> u.value]

\* maybe_single: except ValueError: return sequence
MaybeSingleResult(u) ==
    [op |-> "maybe_single",
     outcome |-> IF u.raised = "ValueError" THEN "sequence" ELSE "item",
     item |-> u.value]

UnInit ==
    /\ unInput \in [type : UnTypes, items : SeqsUpTo(UnItems, MaxUnLen)]
    /\ unIter = unInput.items
    /\ unResult = NoUnResult

\* one(item)
one ==
    /\ unResult.op = "none"
    /\ LET u == Unpack(unIter)
       IN  /\ unIter' = IF unInput.type = "iterator" THEN u.iter ELSE unIter
           /\ unResult' = [op |-> "one",
                           outcome |-> IF u.raised = "" THEN "item" ELSE u.raised,
                           item |-> u.value]
    /\ UNCHANGED unInput

\* maybe_single(sequence)
maybe_single ==
    /\ unResult.op = "none"
    /\ LET u == Unpack(unIter)
       IN  /\ unIter' = IF unInput.type = "iterator" THEN u.iter ELSE unIter
           /\ unResult' = MaybeSingleResult(u)
    /\ UNCHANGED unInput

(***************************************************************************)
(* The chunking helpers: grouper_nofill_str (jaraco/itertools.py),         *)
(* grouper_nofill (jaraco/util/itertools.py) and chunkGenerator            *)
(* (itools.py).  A string is the sequence of its characters; a chunk is    *)
(* [type, items] with the type "str", "list" or "tuple".                   *)
(***************************************************************************)
ChImpls == {"grouper_nofill_str", "grouper_nofill", "chunkGenerator"}
ChItems == {"a", "b"}
ChTypes == {"str", "list"}

\* itertools.islice(it, n) run to its end: what it gave and what is left
Take(it, n) ==
    LET k == IF Len(it) < n THEN Len(it) ELSE n
    IN  [taken |-> SubSeq(it, 1, k), rest |-> SubSeq(it, k + 1, Len(it))]

\* ''.join(item)
Join(items) == [type |-> "str", items |-> items]

\* more_itertools.chunked(iterable, n): lists of n items taken from
\* iter(iterable) until an empty list comes; grouper_nofill_str joins each
\* chunk of a str
GrouperNofillStrNext(it, n, type) ==
    LET t == Take(it, n)
    IN  [rest |-> t.rest,
         stop |-> t.taken = << >>,
         chunk |-> IF type = "str" THEN Join(t.taken)
                   ELSE [type |-> "list", items |-> t.taken]]

\* chunkGenerator: result = tuple(islice(seq, size)); if not result: break
ChunkGeneratorNext(it, n) ==
    LET t == Take(it, n)
    IN  [rest |-> t.rest,
         stop |-> t.taken = << >>,
         chunk |-> [type |-> "tuple", items |-> t.taken]]

\* the fill value of grouper_nofill
nofill == "<nofill>"

\* grouper(n, iterable, fillvalue): izip_longest over n references to one
\* iterator gives the next n items, filled up with fillvalue, and ends
\* when a round gets no item at all
Grouper(it, n, fillvalue) ==
    LET t == Take(it, n)
    IN  [rest |-> t.rest,
         stop |-> t.taken = << >>,
         row |-> t.taken \o [i \in 1 .. (n - Len(t.taken)) |-> fillvalue]]

\* remove_nofill that filters nothing
RemoveNofillKeepsFill(row) == row

\* remove_nofill = lambda s: tuple(filter(value_is_not_nofill, s))
remove_nofill(row) == SelectSeq(row, LAMBDA v : v # nofill)

\* grouper_nofill: map(remove_nofill, grouper(n, iterable, fillvalue=nofill))
GrouperNofillNext(it, n) ==
    LET g == Grouper(it, n, nofill)
    IN  [rest |-> g.rest,
         stop |-> g.stop,
         chunk |-> [type |-> "tuple", items |-> remove_nofill(g.row)]]

ChInit ==
    /\ chImpl \in ChImpls
    /\ chInput \in [type : ChTypes, items : SeqsUpTo(ChItems, MaxChunkInput)]
    /\ chSize \in 1 .. MaxChunkSize
    /\ chIter = chInput.items
    /\ chunks = << >>
    /\ chDone = FALSE

\* next() on the generator a chunking helper returned.  chunkGenerator
\* refuses a string with TypeError before it yields anything.
ChunkNext ==
    /\ chImpl \in ChImpls
    /\ ~chDone
    /\ IF chImpl = "chunkGenerator" /\ chInput.type = "str"
       THEN /\ chDone' = TRUE
            /\ chunks' = << [type |-> "TypeError", items |-> << >>] >>
            /\ UNCHANGED chIter
       ELSE LET r == CASE chImpl = "grouper_nofill_str" ->
                            GrouperNofillStrNext(chIter, chSize, chInput.type)
                        [] chImpl = "grouper_nofill" -> GrouperNofillNext(chIter, chSize)
                        [] chImpl = "chunkGenerator" -> ChunkGeneratorNext(chIter, chSize)
            IN  /\ chIter' = r.rest
                /\ chDone' = r.stop
                /\ chunks' = IF r.stop THEN chunks ELSE Append(chunks, r.chunk)
    /\ UNCHANGED <<chImpl, chInput, chSize>>

(***************************************************************************)
(* duplicates(a, b, key=key)                                               *)
(***************************************************************************)
DupItems == {1, 2, 3}
DupKeyFuncs == {"id", "half"}

\* key(x): the default lambda x: x, or a key that two items share
DupKey(f, x) == IF f = "id" THEN x ELSE x \div 2

RECURSIVE HeapqMerge(_, _, _)
\* heapq.merge(a, b, key=key): always the item of the smallest key among
\* the heads, the one of the earlier iterable on a tie
HeapqMerge(a, b, f) ==
    IF a = << >> THEN b
    ELSE IF b = << >> THEN a
    ELSE IF DupKey(f, b[1]) < DupKey(f, a[1])
         THEN << b[1] >> \o HeapqMerge(a, Tail(b), f)
         ELSE << a[1] >> \o HeapqMerge(Tail(a), b, f)

RECURSIVE RunOfKey(_, _, _)
\* the number of leading items of s whose key is k
RunOfKey(s, f, k) ==
    IF s = << >> \/ DupKey(f, s[1]) # k THEN 0
    ELSE 1 + RunOfKey(Tail(s), f, k)

\* itertools.groupby(zipped, key=key), one step: tuple(g) of the first
\* group and what follows it
NextGroup(s, f) ==
    LET n == RunOfKey(s, f, DupKey(f, s[1]))
    IN  [group |-> SubSeq(s, 1, n), rest |-> SubSeq(s, n + 1, Len(s))]

\* has_dupes(group)
has_dupes(group) == Len(group) > 1

RECURSIVE FilterNext(_, _)
\* next(filter(has_dupes, groups)): groups are taken until one has_dupes;
\* found is FALSE when the groups ended first
FilterNext(s, f) ==
    IF s = << >> THEN [found |-> FALSE, group |-> << >>, rest |-> << >>]
    ELSE LET g == NextGroup(s, f)
         IN  IF has_dupes(g.group)
             THEN [found |-> TRUE, group |-> g.group, rest |-> g.rest]
             ELSE FilterNext(g.rest, f)

DupInit ==
    /\ dupA \in SeqsUpTo(DupItems, MaxDupLen)
    /\ dupB \in SeqsUpTo(DupItems, MaxDupLen)
    /\ dupKey \in DupKeyFuncs
    /\ dupOut = << >>
    /\ dupPc = "start"
    /\ zipped = << >>

\* the call duplicates(dupA, dupB, key=dupKey)
duplicates ==
    /\ dupPc = "start"
    /\ zipped' = HeapqMerge(dupA, dupB, dupKey)
    /\ dupPc' = "iter"
    /\ UNCHANGED <<dupA, dupB, dupKey, dupOut>>

\* next() on the filter that duplicates returned
DuplicatesNext ==
    /\ dupPc = "iter"
    /\ LET r == FilterNext(zipped, dupKey)
       IN  /\ zipped' = r.rest
           /\ dupOut' = IF r.found THEN Append(dupOut, r.group) ELSE dupOut
           /\ dupPc' = IF r.found THEN "iter" ELSE "done"
    /\ UNCHANGED <<dupA, dupB, dupKey>>

(***************************************************************************)
(* partition_items(count, bin_size)                                        *)
(***************************************************************************)
\* int(math.ceil(count / float(bin_size))) + 1 for every count
NumBinsOneMore(c, b) == c \div b + 1

\* num_bins = int(math.ceil(count / float(bin_size)))
NumBins(c, b) == IF c % b = 0 THEN c \div b ELSE c \div b + 1

PiInit ==
    /\ piCount \in 0 .. MaxCount
    /\ bin_size \in 1 .. MaxBinSize
    /\ bins = << >>
    /\ piI = 0
    /\ piPc = "start"

\* the call: bins = [0] * num_bins
partition_items ==
    /\ piPc = "start"
    /\ bins' = [j \in 1 .. NumBins(piCount, bin_size) |-> 0]
    /\ piI' = 0
    /\ piPc' = "loop"
    /\ UNCHANGED <<piCount, bin_size>>

\* one round of for i in range(count): bins[i % num_bins] += 1
PartitionLoop ==
    /\ piPc = "loop"
    /\ piI < piCount
    /\ LET num_bins == Len(bins)
           j == (piI % num_bins) + 1
       IN  bins' = [bins EXCEPT ![j] = @ + 1]
    /\ piI' = piI + 1
    /\ UNCHANGED <<piCount, bin_size, piPc>>

\* range(count) is through: return bins
PartitionReturn ==
    /\ piPc = "loop"
    /\ piI = piCount
    /\ piPc' = "done"
    /\ UNCHANGED <<piCount, bin_size, bins, piI>>

(***************************************************************************)
(* nwise and window.  The items are 1 .. MaxItem and None is 0; an         *)
(* iterator is the sequence of what it has still to give.                  *)
(***************************************************************************)
WinItems == 1 .. MaxItem
WinNone == 0

\* next(it, None) for its effect on it
Advance(it) == IF it = << >> THEN << >> ELSE Tail(it)

RECURSIVE Iterset(_, _)
\* the loop of nwise: while len(iterset) < n the last iterator is replaced
\* by its two tee copies and the second copy is advanced by one
Iterset(iterset, n) ==
    IF Len(iterset) < n
    THEN LET lastIt == iterset[Len(iterset)]
         IN  Iterset(SubSeq(iterset, 1, Len(iterset) - 1)
                        \o << lastIt, Advance(lastIt) >>, n)
    ELSE iterset

\* zip(*iterset): tuples of the i-th items as long as every iterator has one
Zip(iterset) ==
    LET lens == {Len(iterset[k]) : k \in 1 .. Len(iterset)}
        shortest == CHOOSE m \in lens : \A l \in lens : m <= l
    IN  [i \in 1 .. shortest |-> [k \in 1 .. Len(iterset) |-> iterset[k][i]]]

\* nwise(iter, n)
nwise(it, n) == Zip(Iterset(<< it >>, n))

\* (None,) * size
Nones(size) == [i \in 1 .. size |-> WinNone]

WinInit ==
    /\ winInput \in SeqsUpTo(WinItems, MaxWinLen)
    /\ pre_size \in 0 .. MaxWinSize
    /\ post_size \in 0 .. MaxWinSize
    /\ winOut = << >>
    /\ winPc = "start"
    /\ pre_iter = << >> /\ winIter = << >> /\ post_iter = << >>

\* the call window(winInput, pre_size, post_size)
window ==
    /\ winPc = "start"
    /\ pre_iter' = nwise(Nones(pre_size) \o winInput, pre_size)
    /\ winIter' = winInput
    /\ post_iter' = Advance(nwise(winInput \o Nones(post_size), post_size))
    /\ winPc' = "iter"
    /\ UNCHANGED <<winInput, pre_size, post_size, winOut>>

\* next() on the zip that window returned: zip asks its iterators in turn
\* and ends at the first that is exhausted, the items it drew before lost
WindowNext ==
    /\ winPc = "iter"
    /\ pre_iter' = Advance(pre_iter)
    /\ winIter' = IF pre_iter = << >> THEN winIter ELSE Advance(winIter)
    /\ post_iter' = IF pre_iter = << >> \/ winIter = << >> THEN post_iter
                    ELSE Advance(post_iter)
    /\ IF pre_iter = << >> \/ winIter = << >> \/ post_iter = << >>
       THEN winPc' = "done" /\ UNCHANGED winOut
       ELSE /\ winOut' = Append(winOut, [pre |-> pre_iter[1], item |-> winIter[1],
                                         post |-> post_iter[1]])
            /\ UNCHANGED winPc
    /\ UNCHANGED <<winInput, pre_size, post_size>>

(***************************************************************************)
(* peek, Peekable and takewhile_peek.  An iterator is the sequence of what *)
(* it has still to give; a log entry is [op, outcome, value].              *)
(***************************************************************************)
PkItems == 1 .. MaxItem
NoValue == 0

\* itertools.tee(iterable): two iterators that each give what iterable had
Tee(it) == << it, it >>

\* peek that hands back the advanced peeker in place of original
PeekReturnsPeeker(it) ==
    IF it = << >> THEN [raised |-> TRUE, value |-> NoValue, original |-> it]
    ELSE [raised |-> FALSE, value |-> it[1], original |-> Tail(it)]

\* peek(iterable): peeker, original = itertools.tee(iterable);
\* return next(peeker), original.  next(peeker) raises StopIteration when
\* nothing is left.
peek(it) ==
    LET peeker == Tee(it)[1]
        original == Tee(it)[2]
    IN  IF peeker = << >>
        THEN [raised |-> TRUE, value |-> NoValue, original |-> it]
        ELSE [raised |-> FALSE, value |-> peeker[1], original |-> original]

LogEntry(op, outcome, value) == [op |-> op, outcome |-> outcome, value |-> value]

\* Peekable(pkInput): self.iterator = iter(iterator)
PkInit ==
    /\ pkInput \in SeqsUpTo(PkItems, MaxPkLen)
    /\ iterator = pkInput
    /\ iteratorIsSelf = FALSE
    /\ pkLog = << >>
    /\ isSmallLimit = 0 /\ twBefore = << >> /\ twOut = << >> /\ twPc = "none"

\* Peekable.__next__: return next(self.iterator).  When self.iterator is
\* the Peekable itself the call recurses until RecursionError.
PeekableNext ==
    /\ Len(pkLog) < MaxPkCalls
    /\ IF iteratorIsSelf
       THEN /\ pkLog' = Append(pkLog, LogEntry("next", "RecursionError", NoValue))
            /\ UNCHANGED iterator
       ELSE IF iterator = << >>
       THEN /\ pkLog' = Append(pkLog, LogEntry("next", "StopIteration", NoValue))
            /\ UNCHANGED iterator
       ELSE /\ pkLog' = Append(pkLog, LogEntry("next", "value", iterator[1]))
            /\ iterator' = Tail(iterator)
    /\ UNCHANGED <<pkInput, iteratorIsSelf, isSmallLimit, twBefore, twOut, twPc>>

\* Peekable.peek: result, self.iterator = peek(self.iterator); return result
PeekablePeek ==
    /\ Len(pkLog) < MaxPkCalls
    /\ IF iteratorIsSelf
       THEN /\ pkLog' = Append(pkLog, LogEntry("peek", "RecursionError", NoValue))
            /\ UNCHANGED iterator
       ELSE LET r == peek(iterator)
            IN  IF r.raised
                THEN /\ pkLog' = Append(pkLog, LogEntry("peek", "StopIteration", NoValue))
                     /\ UNCHANGED iterator
                ELSE /\ pkLog' = Append(pkLog, LogEntry("peek", "value", r.value))
                     /\ iterator' = r.original
    /\ UNCHANGED <<pkInput, iteratorIsSelf, isSmallLimit, twBefore, twOut, twPc>>

\* Peekable(p) for the Peekable p: __new__ returns p itself since it has
\* a peek attribute, and Python then runs p.__init__(p) on the instance
\* returned, which sets self.iterator = iter(p), the Peekable itself; the
\* iterator it held is dropped
PeekableNew ==
    /\ Len(pkLog) < MaxPkCalls
    /\ iteratorIsSelf' = TRUE
    /\ iterator' = << >>
    /\ pkLog' = Append(pkLog, LogEntry("Peekable", "same", NoValue))
    /\ UNCHANGED <<pkInput, isSmallLimit, twBefore, twOut, twPc>>

\* the call takewhile_peek(predicate, iterable) on the Peekable
takewhile_peek ==
    /\ twPc = "none"
    /\ ~iteratorIsSelf
    /\ isSmallLimit' \in 1 .. MaxItem + 1
    /\ twBefore' = iterator
    /\ twOut' = << >>
    /\ twPc' = "iter"
    /\ UNCHANGED <<pkInput, iterator, iteratorIsSelf, pkLog>>

\* a takewhile that draws the item before it tests it, as
\* itertools.takewhile does
TakewhileNextConsumes ==
    /\ twPc = "iter"
    /\ IF iterator = << >>
       THEN /\ twPc' = "done"
            /\ pkLog' = Append(pkLog, LogEntry("next", "StopIteration", NoValue))
            /\ UNCHANGED <<iterator, twOut>>
       ELSE /\ pkLog' = Append(pkLog, LogEntry("next", "value", iterator[1]))
            /\ iterator' = Tail(iterator)
            /\ IF iterator[1] < isSmallLimit
               THEN twOut' = Append(twOut, iterator[1]) /\ UNCHANGED twPc
               ELSE twPc' = "done" /\ UNCHANGED twOut
    /\ UNCHANGED <<pkInput, iteratorIsSelf, isSmallLimit, twBefore>>

\* next() on the generator of takewhile_peek: one round of its loop.
\* iterable.peek() raising StopIteration and a peeked item that fails the
\* predicate both break; otherwise next(iterable) is yielded.
TakewhileNext ==
    /\ twPc = "iter"
    /\ LET r == peek(iterator)
       IN  IF r.raised
           THEN /\ twPc' = "done"
                /\ pkLog' = Append(pkLog, LogEntry("peek", "StopIteration", NoValue))
                /\ UNCHANGED <<iterator, twOut>>
           ELSE IF ~(r.value < isSmallLimit)
           THEN /\ twPc' = "done"
                /\ pkLog' = Append(pkLog, LogEntry("peek", "value", r.value))
                /\ iterator' = r.original
                /\ UNCHANGED twOut
           ELSE /\ pkLog' = pkLog \o << LogEntry("peek", "value", r.value),
                                        LogEntry("next", "value", r.original[1]) >>
                /\ iterator' = Tail(r.original)
                /\ twOut' = Append(twOut, r.original[1])
                /\ UNCHANGED twPc
    /\ UNCHANGED <<pkInput, iteratorIsSelf, isSmallLimit, twBefore>>

(***************************************************************************)
(* Reusable                                                                *)
(***************************************************************************)
\* Reusable(reInput): self.__saved = iterable; self.reset()
ReInit ==
    /\ reInput \in SeqsUpTo(PkItems, MaxReLen)
    /\ saved = Tee(reInput)[2]
    /\ reIterator = Tee(reInput)[1]
    /\ reLog = << >>

\* a reset that leaves the running iteration where it is
ResetKeepsIterator ==
    /\ Len(reLog) < MaxReCalls
    /\ reLog' = Append(reLog, LogEntry("reset", "none", NoValue))
    /\ UNCHANGED <<reInput, saved, reIterator>>

\* Reusable.reset: self.__iterator, self.__saved = itertools.tee(self.__saved)
reset ==
    /\ Len(reLog) < MaxReCalls
    /\ reIterator' = Tee(saved)[1]
    /\ saved' = Tee(saved)[2]
    /\ reLog' = Append(reLog, LogEntry("reset", "none", NoValue))
    /\ UNCHANGED reInput

\* Reusable.__next__: next(self.__iterator); on StopIteration the iterator
\* is reset before the exception goes on
ReusableNext ==
    /\ Len(reLog) < MaxReCalls
    /\ IF reIterator = << >>
       THEN /\ reIterator' = Tee(saved)[1]
            /\ saved' = Tee(saved)[2]
            /\ reLog' = Append(reLog, LogEntry("next", "StopIteration", NoValue))
       ELSE /\ reIterator' = Tail(reIterator)
            /\ reLog' = Append(reLog, LogEntry("next", "value", reIterator[1]))
            /\ UNCHANGED saved
    /\ UNCHANGED reInput

ReIdle == reInput = << >> /\ saved = << >> /\ reIterator = << >> /\ reLog = << >>

(***************************************************************************)
(* make_rows(num_columns, seq)                                             *)
(***************************************************************************)
RECURSIVE GrouperAll(_, _, _)
\* everything grouper(seq, n) gives: the rounds of Grouper until it stops
GrouperAll(it, n, fillvalue) ==
    LET g == Grouper(it, n, fillvalue)
    IN  IF g.stop THEN << >>
        ELSE << g.row >> \o GrouperAll(g.rest, n, fillvalue)

\* zip(*result): nothing when result is empty
ZipStar(columns) == IF columns = << >> THEN << >> ELSE Zip(columns)

\* num_rows, partial = divmod(len(seq), num_columns); if partial: num_rows += 1
NumRows(len, columns) ==
    IF len % columns # 0 THEN len \div columns + 1 ELSE len \div columns

MrInit ==
    /\ mrSeq \in SeqsUpTo(WinItems, MaxRowLen)
    /\ num_columns \in 1 .. MaxColumns
    /\ mrRows = << >>
    /\ mrOut = << >>
    /\ mrPc = "start"

\* the call: the columns are grouper(seq, num_rows), the result their zip
make_rows ==
    /\ mrPc = "start"
    /\ LET num_rows == NumRows(Len(mrSeq), num_columns)
           columns == GrouperAll(mrSeq, num_rows, WinNone)
       IN  mrRows' = ZipStar(columns)
    /\ mrPc' = "iter"
    /\ UNCHANGED <<mrSeq, num_columns, mrOut>>

\* next() on the zip that make_rows returned
MakeRowsNext ==
    /\ mrPc = "iter"
    /\ IF mrRows = << >>
       THEN mrPc' = "done" /\ UNCHANGED <<mrRows, mrOut>>
       ELSE /\ mrOut' = Append(mrOut, mrRows[1])
            /\ mrRows' = Tail(mrRows)
            /\ UNCHANGED mrPc
    /\ UNCHANGED <<mrSeq, num_columns>>

MrIdle ==
    /\ mrSeq = << >> /\ num_columns = 0 /\ mrRows = << >> /\ mrOut = << >>
    /\ mrPc = "idle"

(***************************************************************************)
(* assert_ordered(iterable, key, comp)                                     *)
(***************************************************************************)
AoKeys == {"id", "neg"}
AoComps == {"le", "ge"}

\* key(x): the default lambda x: x, or operator.neg
AoKey(f, x) == IF f = "id" THEN x ELSE 0 - x

\* comp(a, b): operator.le or operator.ge
Comp(c, a, b) == IF c = "le" THEN a <= b ELSE a >= b

\* more_itertools.pairwise(iterable): the pairs of adjacent items
Pairwise(it) == ZipStar(<< it, Advance(it) >>)

AoInit ==
    /\ aoInput \in SeqsUpTo(WinItems, MaxOrdLen)
    /\ aoKey \in AoKeys
    /\ comp \in AoComps
    /\ aoPairs = Pairwise(aoInput)
    /\ aoPair = << >>
    /\ aoOut = << >>
    /\ aoPc = "loop"

\* next() on the generator while it is in the for loop: the next pair is
\* tested and its first item yielded; when the pairs are through the
\* generator goes on to yield pair[1], which reads an unbound pair when
\* the loop never ran
AssertOrderedNext ==
    /\ aoPc = "loop"
    /\ IF aoPairs # << >>
       THEN /\ aoPair' = aoPairs[1]
            /\ aoPairs' = Tail(aoPairs)
            /\ IF ~Comp(comp, AoKey(aoKey, aoPairs[1][1]), AoKey(aoKey, aoPairs[1][2]))
               THEN aoPc' = "AssertionError" /\ UNCHANGED aoOut
               ELSE aoOut' = Append(aoOut, aoPairs[1][1]) /\ UNCHANGED aoPc
       ELSE /\ UNCHANGED <<aoPairs, aoPair>>
            /\ IF aoPair = << >>
               THEN aoPc' = "UnboundLocalError" /\ UNCHANGED aoOut
               ELSE aoOut' = Append(aoOut, aoPair[2]) /\ aoPc' = "last"
    /\ UNCHANGED <<aoInput, aoKey, comp>>

\* next() after pair[1] was yielded: the generator returns
AssertOrderedEnd ==
    /\ aoPc = "last"
    /\ aoPc' = "done"
    /\ UNCHANGED <<aoInput, aoKey, comp, aoPairs, aoPair, aoOut>>

AoIdle ==
    /\ aoInput = << >> /\ aoKey = "id" /\ comp = "le" /\ aoPairs = << >>
    /\ aoPair = << >> /\ aoOut = << >> /\ aoPc = "idle"

(***************************************************************************)
(* balanced_rows(n, iterable, fillvalue)                                   *)
(***************************************************************************)
RECURSIVE PartitionBins(_, _, _)
\* the loop of partition_items from round i on:
\* for i in range(count): bins[i % num_bins] += 1
PartitionBins(bs, i, c) ==
    IF i >= c THEN bs
    ELSE PartitionBins([bs EXCEPT ![(i % Len(bs)) + 1] = @ + 1], i + 1, c)

\* what partition_items(count, bin_size) returns
PartitionItems(c, b) == PartitionBins([j \in 1 .. NumBins(c, b) |-> 0], 0, c)

\* a row yielded is kept as the items it took and the number of fill values
\* that follow them
BrInit ==
    /\ brInput \in SeqsUpTo(WinItems, MaxBalLen)
    /\ brN \in 1 .. MaxBalN
    /\ allocations = << >>
    /\ brIterable = << >>
    /\ brOut = << >>
    /\ brPc = "start"

\* the generator starts: iterable is teed, the copy counted and
\* partition_items(count, n) called
balanced_rows ==
    /\ brPc = "start"
    /\ LET iterable == Tee(brInput)[1]
           iterable_copy == Tee(brInput)[2]
           cnt == Len(iterable_copy)
       IN  /\ brIterable' = iterable
           /\ allocations' = PartitionItems(cnt, brN)
    /\ brPc' = "iter"
    /\ UNCHANGED <<brInput, brN, brOut>>

\* one round of for allocation in partition_items(count, n): the row is
\* islice(iterable, allocation), chained with [fillvalue] if allocation < n
BalancedRowsNext ==
    /\ brPc = "iter"
    /\ IF allocations = << >>
       THEN brPc' = "done" /\ UNCHANGED <<allocations, brIterable, brOut>>
       ELSE LET allocation == allocations[1]
                row == Take(brIterable, allocation)
            IN  /\ brOut' = Append(brOut,
                       [items |-> row.taken,
                        fill |-> IF allocation < brN THEN 1 ELSE 0])
                /\ brIterable' = row.rest
                /\ allocations' = Tail(allocations)
                /\ UNCHANGED brPc
    /\ UNCHANGED <<brInput, brN>>

BrIdle ==
    /\ brInput = << >> /\ brN = 0 /\ allocations = << >> /\ brIterable = << >>
    /\ brOut = << >> /\ brPc = "idle"

PkIdle ==
    /\ pkInput = << >> /\ iterator = << >> /\ iteratorIsSelf = FALSE
    /\ pkLog = << >>
    /\ isSmallLimit = 0 /\ twBefore = << >> /\ twOut = << >> /\ twPc = "idle"
OthersIdle == PkIdle /\ ReIdle /\ MrIdle /\ AoIdle /\ BrIdle

PredIdle ==
    /\ predClass = "none" /\ limit = 0 /\ count = 0 /\ last = FALSE
    /\ history = << >>
UnIdle ==
    /\ unInput = [type |-> "list", items |-> << >>]
    /\ unIter = << >>
    /\ unResult = NoUnResult
ChIdle ==
    /\ chImpl = "none" /\ chInput = [type |-> "list", items |-> << >>]
    /\ chSize = 0 /\ chIter = << >> /\ chunks = << >> /\ chDone = FALSE
DupIdle ==
    /\ dupA = << >> /\ dupB = << >> /\ dupKey = "id" /\ dupOut = << >>
    /\ dupPc = "idle" /\ zipped = << >>
PiIdle == piCount = 0 /\ bin_size = 0 /\ bins = << >> /\ piI = 0 /\ piPc = "idle"
WinIdle ==
    /\ winInput = << >> /\ pre_size = 0 /\ post_size = 0 /\ winOut = << >>
    /\ winPc = "idle" /\ pre_iter = << >> /\ winIter = << >> /\ post_iter = << >>
HelpersIdle == PredIdle /\ UnIdle /\ ChIdle /\ DupIdle /\ PiIdle /\ WinIdle

GsIdle ==
    /\ source = << >> /\ func = "id" /\ sequence = << >> /\ queues = << >>
    /\ returned = [k \in GsKeys |-> << >>] /\ result = NoResult
BisIdle == halves = << >> /\ halfOut = << >> /\ halfEnded = << >>
CrIdle ==
    /\ old = << >> /\ new = << >> /\ key = "id"
    /\ old_items = << >> /\ new_items = << >> /\ out = << >> /\ calls = << >>
    /\ crPc = "idle"

(***************************************************************************)
(* The partitioner: any sequence of gs[k], next(q) and                     *)
(* get_first_n_queues(n) on one GroupbySaved                               *)
(***************************************************************************)
Init == GsInit /\ BisIdle /\ CrIdle /\ HelpersIdle /\ OthersIdle

Next ==
    \/ \E k \in GsKeys : GetItem(k) /\ UNCHANGED <<bisVars, crVars, helperVars, otherVars>>
    \/ \E k \in GsKeys : QueueNext(k) /\ UNCHANGED <<bisVars, crVars, helperVars, otherVars>>
    \/ \E n \in 0 .. MaxN : get_first_n_queues(n) /\ UNCHANGED <<bisVars, crVars, helperVars, otherVars>>

Spec == Init /\ [][Next]_vars

(***************************************************************************)
(* bisect: one call on a sequence, then the two results iterated in any    *)
(* interleaving                                                            *)
(***************************************************************************)
BisInit ==
    /\ source \in SeqsUpTo(GsItems, MaxLen)
    /\ func \in {"bool", "mod2"}
    /\ sequence = << >>
    /\ queues = << >>
    /\ returned = [k \in GsKeys |-> << >>]
    /\ result = NoResult
    /\ BisIdle
    /\ CrIdle
    /\ HelpersIdle /\ OthersIdle

BisNext ==
    \/ bisect /\ UNCHANGED <<crVars, helperVars, otherVars>>
    \/ \E i \in 1 .. 2 : HalfNext(i) /\ UNCHANGED <<crVars, helperVars, otherVars>>

SpecBisect == BisInit /\ [][BisNext]_vars

(***************************************************************************)
(* collate_revs: one call, run to the end                                  *)
(***************************************************************************)
CrInit ==
    /\ \E pair \in CrInputs : old = pair[1] /\ new = pair[2]
    /\ key \in CrKeyFuncs
    /\ old_items = << >>
    /\ new_items = << >>
    /\ out = << >>
    /\ calls = << >>
    /\ crPc = "start"
    /\ GsIdle
    /\ BisIdle
    /\ HelpersIdle /\ OthersIdle

CrNext ==
    \/ CollateStart /\ UNCHANGED <<gsVars, bisVars, helperVars, otherVars>>
    \/ CollateStep /\ UNCHANGED <<gsVars, bisVars, helperVars, otherVars>>
    \/ CollateLeftover /\ UNCHANGED <<gsVars, bisVars, helperVars, otherVars>>

SpecCollate == CrInit /\ [][CrNext]_vars

(***************************************************************************)
(* A call-counted predicate called again and again with any arguments      *)
(***************************************************************************)
PredSpecInit ==
    /\ PredInit
    /\ GsIdle /\ BisIdle /\ CrIdle /\ OthersIdle
    /\ UnIdle /\ ChIdle /\ DupIdle /\ PiIdle /\ WinIdle

PredNext ==
    \E arg \in PredArgs :
       Call(arg) /\ UNCHANGED <<gsVars, bisVars, crVars, otherVars,
                               unVars, chVars, dupVars, piVars, winVars>>

SpecPred == PredSpecInit /\ [][PredNext]_vars

(***************************************************************************)
(* one call of one or of maybe_single                                      *)
(***************************************************************************)
UnSpecInit ==
    /\ UnInit
    /\ GsIdle /\ BisIdle /\ CrIdle /\ OthersIdle
    /\ PredIdle /\ ChIdle /\ DupIdle /\ PiIdle /\ WinIdle

UnNext ==
    \/ one /\ UNCHANGED <<gsVars, bisVars, crVars, otherVars,
                          predVars, chVars, dupVars, piVars, winVars>>
    \/ maybe_single /\ UNCHANGED <<gsVars, bisVars, crVars, otherVars,
                                   predVars, chVars, dupVars, piVars, winVars>>

SpecUnpack == UnSpecInit /\ [][UnNext]_vars

(***************************************************************************)
(* one chunking helper run over one input to its end                       *)
(***************************************************************************)
ChSpecInit ==
    /\ ChInit
    /\ GsIdle /\ BisIdle /\ CrIdle /\ OthersIdle
    /\ PredIdle /\ UnIdle /\ DupIdle /\ PiIdle /\ WinIdle

ChNext ==
    ChunkNext /\ UNCHANGED <<gsVars, bisVars, crVars, otherVars,
                             predVars, unVars, dupVars, piVars, winVars>>

SpecChunk == ChSpecInit /\ [][ChNext]_vars

(***************************************************************************)
(* one call of duplicates, its result iterated to the end                  *)
(***************************************************************************)
DupSpecInit ==
    /\ DupInit
    /\ GsIdle /\ BisIdle /\ CrIdle /\ OthersIdle
    /\ PredIdle /\ UnIdle /\ ChIdle /\ PiIdle /\ WinIdle

DupNext ==
    \/ duplicates /\ UNCHANGED <<gsVars, bisVars, crVars, otherVars,
                                 predVars, unVars, chVars, piVars, winVars>>
    \/ DuplicatesNext /\ UNCHANGED <<gsVars, bisVars, crVars, otherVars,
                                     predVars, unVars, chVars, piVars, winVars>>

SpecDup == DupSpecInit /\ [][DupNext]_vars

(***************************************************************************)
(* one call of partition_items                                             *)
(***************************************************************************)
PiSpecInit ==
    /\ PiInit
    /\ GsIdle /\ BisIdle /\ CrIdle /\ OthersIdle
    /\ PredIdle /\ UnIdle /\ ChIdle /\ DupIdle /\ WinIdle

PiNext ==
    \/ partition_items /\ UNCHANGED <<gsVars, bisVars, crVars, otherVars,
                                      predVars, unVars, chVars, dupVars, winVars>>
    \/ PartitionLoop /\ UNCHANGED <<gsVars, bisVars, crVars, otherVars,
                                    predVars, unVars, chVars, dupVars, winVars>>
    \/ PartitionReturn /\ UNCHANGED <<gsVars, bisVars, crVars, otherVars,
                                      predVars, unVars, chVars, dupVars, winVars>>

SpecPartition == PiSpecInit /\ [][PiNext]_vars

(***************************************************************************)
(* one call of window, its result iterated to the end                      *)
(***************************************************************************)
WinSpecInit ==
    /\ WinInit
    /\ GsIdle /\ BisIdle /\ CrIdle /\ OthersIdle
    /\ PredIdle /\ UnIdle /\ ChIdle /\ DupIdle /\ PiIdle

WinNext ==
    \/ window /\ UNCHANGED <<gsVars, bisVars, crVars, otherVars,
                             predVars, unVars, chVars, dupVars, piVars>>
    \/ WindowNext /\ UNCHANGED <<gsVars, bisVars, crVars, otherVars,
                                 predVars, unVars, chVars, dupVars, piVars>>

SpecWindow == WinSpecInit /\ [][WinNext]_vars

(***************************************************************************)
(* a Peekable over a sequence: next() and peek() in any order, and one     *)
(* takewhile_peek over it, during which nothing else draws from it         *)
(***************************************************************************)
UnchangedButPeekable ==
    UNCHANGED <<gsVars, bisVars, crVars, helperVars, reVars, mrVars, aoVars,
                brVars>>

PkSpecInit ==
    /\ PkInit /\ ReIdle /\ MrIdle /\ AoIdle /\ BrIdle
    /\ GsIdle /\ BisIdle /\ CrIdle /\ HelpersIdle

PkNext ==
    \/ twPc = "none" /\ PeekableNext /\ UnchangedButPeekable
    \/ PeekablePeek /\ UnchangedButPeekable
    \/ takewhile_peek /\ UnchangedButPeekable
    \/ TakewhileNext /\ UnchangedButPeekable

SpecPeekable == PkSpecInit /\ [][PkNext]_vars

(***************************************************************************)
(* a Reusable over a sequence: next() and reset() in any order             *)
(***************************************************************************)
UnchangedButReusable ==
    UNCHANGED <<gsVars, bisVars, crVars, helperVars, pkVars, mrVars, aoVars,
                brVars>>

ReSpecInit ==
    /\ ReInit /\ PkIdle /\ MrIdle /\ AoIdle /\ BrIdle
    /\ GsIdle /\ BisIdle /\ CrIdle /\ HelpersIdle

ReNext ==
    \/ ReusableNext /\ UnchangedButReusable
    \/ reset /\ UnchangedButReusable

SpecReusable == ReSpecInit /\ [][ReNext]_vars

(***************************************************************************)
(* one call of make_rows, its result iterated to the end                   *)
(***************************************************************************)
UnchangedButMakeRows ==
    UNCHANGED <<gsVars, bisVars, crVars, helperVars, pkVars, reVars, aoVars,
                brVars>>

MrSpecInit ==
    /\ MrInit /\ PkIdle /\ ReIdle /\ AoIdle /\ BrIdle
    /\ GsIdle /\ BisIdle /\ CrIdle /\ HelpersIdle

MrNext ==
    \/ make_rows /\ UnchangedButMakeRows
    \/ MakeRowsNext /\ UnchangedButMakeRows

SpecMakeRows == MrSpecInit /\ [][MrNext]_vars

(***************************************************************************)
(* one call of assert_ordered, its generator iterated to the end           *)
(***************************************************************************)
UnchangedButAssertOrdered ==
    UNCHANGED <<gsVars, bisVars, crVars, helperVars, pkVars, reVars, mrVars,
                brVars>>

AoSpecInit ==
    /\ AoInit /\ PkIdle /\ ReIdle /\ MrIdle /\ BrIdle
    /\ GsIdle /\ BisIdle /\ CrIdle /\ HelpersIdle

AoNext ==
    \/ AssertOrderedNext /\ UnchangedButAssertOrdered
    \/ AssertOrderedEnd /\ UnchangedButAssertOrdered

SpecAssertOrdered == AoSpecInit /\ [][AoNext]_vars

(***************************************************************************)
(* one call of balanced_rows, its generator iterated to the end            *)
(***************************************************************************)
UnchangedButBalancedRows ==
    UNCHANGED <<gsVars, bisVars, crVars, helperVars, pkVars, reVars, mrVars,
                aoVars>>

BrSpecInit ==
    /\ BrInit /\ PkIdle /\ ReIdle /\ MrIdle /\ AoIdle
    /\ GsIdle /\ BisIdle /\ CrIdle /\ HelpersIdle

BrNext ==
    \/ balanced_rows /\ UnchangedButBalancedRows
    \/ BalancedRowsNext /\ UnchangedButBalancedRows

SpecBalancedRows == BrSpecInit /\ [][BrNext]_vars

(***************************************************************************)
(* a Peekable that is handed to Peekable() again between its calls         *)
(***************************************************************************)
PkWrapNext ==
    \/ PeekableNext /\ UnchangedButPeekable
    \/ PeekablePeek /\ UnchangedButPeekable
    \/ PeekableNew /\ UnchangedButPeekable

SpecPeekableWrap == PkSpecInit /\ [][PkWrapNext]_vars

(***************************************************************************)
(* Properties of the partitioner                                           *)
(***************************************************************************)
\* what has been pulled from the upstream so far
Pulled == SubSeq(source, 1, Len(source) - Len(sequence))

\* C1: every item pulled from the upstream so far is in exactly one place:
\* for every key k, the items next() returned from the queue of k followed by
\* the items still buffered in it are exactly the pulled items with
\* func(item) = k, in source order; no two queues share a key, and the
\* upstream holds the rest of the source.
C1_PulledItemsInExactlyOnePlace ==
    /\ sequence = SubSeq(source, Len(Pulled) + 1, Len(source))
    /\ \A i, j \in 1 .. Len(queues) : queues[i].key = queues[j].key => i = j
    /\ \A k \in GsKeys :
          returned[k] \o Buffered(queues, k) = Filter(Pulled, FuncOf(func), k)

\* items served from one queue while items of two other keys are buffered
C1_Witness ==
    \E k1, k2 \in GsKeys :
       /\ k1 # k2
       /\ returned[k1] # << >>
       /\ Buffered(queues, k1) # << >>
       /\ Buffered(queues, k2) # << >>

\* the first position of the upstream whose item has key k, 0 if none
FirstWithKey(sq, f, k) ==
    IF \E i \in 1 .. Len(sq) : ApplyFunc(f, sq[i]) = k
    THEN CHOOSE i \in 1 .. Len(sq) :
            /\ ApplyFunc(f, sq[i]) = k
            /\ \A j \in 1 .. (i - 1) : ApplyFunc(f, sq[j]) # k
    ELSE 0

\* C2: gs[k] for a key k that has no queue yet pulls from the upstream until
\* an item with func(item) = k is queued and returns that queue; when the
\* upstream runs out without such an item it raises KeyError, not
\* StopIteration.
C2_GetItemUnseenKey ==
    [][\A k \in GsKeys :
          (result'.op = "getitem" /\ result'.arg = k /\ ~HasQueue(queues, k)) =>
             LET at == FirstWithKey(sequence, func, k)
             IN  IF at > 0
                 THEN /\ result'.outcome = "queue"
                      /\ HasQueue(queues', k)
                      /\ Buffered(queues', k) = << sequence[at] >>
                      /\ sequence' = SubSeq(sequence, at + 1, Len(sequence))
                 ELSE /\ result'.outcome = "KeyError"
                      /\ result'.outcome # "StopIteration"
                      /\ sequence' = << >>]_vars

\* gs[k] ran the upstream dry and raised KeyError
C2_Witness ==
    /\ result.op = "getitem"
    /\ result.outcome = "KeyError"
    /\ result.pulled > 0
    /\ ~HasQueue(queues, result.arg)

\* C3: on a finite source the successive next() calls on the queue of key k
\* return exactly the source items with func(item) = k, in source order,
\* and after the last of them StopIteration (never KeyError), whatever
\* calls on other queues come in between.
C3_NextYieldsKeyItems ==
    [][\A k \in GsKeys :
          (result'.op = "next" /\ result'.arg = k) =>
             LET all == Filter(source, FuncOf(func), k)
                 n == Len(returned[k])
             IN  IF n < Len(all)
                 THEN /\ result'.outcome = "item"
                      /\ result'.item = all[n + 1]
                      /\ returned'[k] = Append(returned[k], all[n + 1])
                 ELSE /\ result'.outcome = "StopIteration"
                      /\ returned'[k] = all]_vars

\* a queue gave its two items and then StopIteration, with a sibling queue
\* read in between
C3_Witness ==
    /\ result.op = "next"
    /\ result.outcome = "StopIteration"
    /\ Len(returned[result.arg]) >= 2
    /\ \E k \in GsKeys : k # result.arg /\ returned[k] # << >>

RECURSIVE DistinctKeys(_, _)
\* the distinct keys of a sequence in order of first appearance
DistinctKeys(s, f) ==
    IF s = << >> THEN << >>
    ELSE LET init == DistinctKeys(SubSeq(s, 1, Len(s) - 1), f)
             k == ApplyFunc(f, s[Len(s)])
         IN  IF \E i \in 1 .. Len(init) : init[i] = k THEN init ELSE Append(init, k)

\* C4: get_first_n_queues(n) returns exactly n iterables, after any earlier
\* calls: the queues of the distinct keys in order of first appearance, then
\* empty iterables if the upstream ran out before n distinct keys appeared.
C4_FirstNReturnsExactlyN ==
    result.op = "first_n" =>
       /\ Len(result.list) = result.arg
       /\ \A i \in 1 .. Len(result.list) :
             LET ks == DistinctKeys(source, func)
             IN  IF i <= Len(ks)
                 THEN result.list[i] = QueueRef(ks[i])
                 ELSE result.list[i] = EmptyIter

\* C5: bisect(seq, func) returns first the elements for which func is false
\* and second those for which it is true, each in source order.
C5_BisectFalseThenTrue ==
    (Len(halves) = 2 /\ halfEnded[1] /\ halfEnded[2]) =>
       /\ halfOut[1] = Filter(source, FuncOf(func), 0)
       /\ halfOut[2] = Filter(source, FuncOf(func), 1)

(***************************************************************************)
(* Properties of collate_revs                                              *)
(***************************************************************************)
KeySet(s) == {ApplyKey(key, s[i]) : i \in 1 .. Len(s)}
OutKeys == [i \in 1 .. Len(out) |-> ApplyKey(key, out[i])]
BothKeys == KeySet(old) \cap KeySet(new)
OldOnlyKeys == KeySet(old) \ KeySet(new)

\* the last item of s with key k: the revision an OrderedDict built from s holds
LastWithKey(s, k) ==
    s[CHOOSE i \in 1 .. Len(s) :
         /\ ApplyKey(key, s[i]) = k
         /\ \A j \in (i + 1) .. Len(s) : ApplyKey(key, s[j]) # k]

RECURSIVE FirstKeys(_)
\* the distinct keys of s in order of first occurrence
FirstKeys(s) ==
    IF s = << >> THEN << >>
    ELSE LET init == FirstKeys(SubSeq(s, 1, Len(s) - 1))
             k == ApplyKey(key, s[Len(s)])
         IN  IF \E i \in 1 .. Len(init) : init[i] = k THEN init ELSE Append(init, k)

RECURSIVE Restrict(_, _)
\* the entries of s that are in S, in order
Restrict(s, S) ==
    IF s = << >> THEN << >>
    ELSE IF Head(s) \in S THEN << Head(s) >> \o Restrict(Tail(s), S)
         ELSE Restrict(Tail(s), S)

\* C6: the output of collate_revs holds exactly one item for each key of old
\* or new and nothing else: its length is the number of distinct keys.
C6_OneItemPerKey ==
    crPc = "done" =>
       /\ Len(out) = Cardinality(KeySet(old) \cup KeySet(new))
       /\ {OutKeys[i] : i \in 1 .. Len(out)} = KeySet(old) \cup KeySet(new)

\* a finished run over inputs with a shared key, an old-only key, a new-only
\* key and a key that repeats within old
C6_Witness ==
    /\ crPc = "done"
    /\ BothKeys # {}
    /\ OldOnlyKeys # {}
    /\ KeySet(new) \ KeySet(old) # {}
    /\ Len(old) > Cardinality(KeySet(old))

\* C7: for every key in both inputs the emitted item is merge(old_item,
\* new_item), old first and new second, so with the default merge it is the
\* item from new; for the key the old item matched and for keys flushed
\* ahead of it.
C7_MergeOldThenNew ==
    crPc = "done" =>
       /\ \A k \in BothKeys : \E i \in 1 .. Len(out) :
             out[i] = LastWithKey(new, k) /\ OutKeys[i] = k
       /\ \A i \in 1 .. Len(calls) : \E k \in BothKeys :
             calls[i] = << LastWithKey(old, k), LastWithKey(new, k) >>

\* C8: the four worked examples, with the identity key and the default merge.
C8_WorkedExamples ==
    (crPc = "done" /\ key = "id") =>
       /\ (old = <<"a", "b", "c">> /\ new = <<"a", "d", "c">>)
             => out = <<"a", "b", "d", "c">>
       /\ (old = <<"a", "c">> /\ new = <<"a", "b", "c">>)
             => out = <<"a", "b", "c">>
       /\ (old = <<"a", "b", "c">> /\ new = <<"d">>)
             => out = <<"a", "b", "c", "d">>
       /\ (old = <<"b", "a">> /\ new = <<"a", "b">>)
             => out = <<"a", "b">>

\* the first example has run to its end
C8_Witness ==
    /\ crPc = "done"
    /\ key = "id"
    /\ old = <<"a", "b", "c">>
    /\ new = <<"a", "d", "c">>
    /\ Len(out) = 4

\* the positions of out whose key occurs only in old
OldOnlyAt == {i \in 1 .. Len(out) : OutKeys[i] \in OldOnlyKeys}

\* C9 as stated: the items whose key occurs only in old appear unmerged and
\* in the same relative order as in old.
C9_OldOnlyInOldOrder ==
    crPc = "done" =>
       /\ \A i \in OldOnlyAt : \E p \in 1 .. Len(old) : old[p] = out[i]
       /\ \A i, j \in OldOnlyAt :
             i < j => \E p, q \in 1 .. Len(old) :
                         p < q /\ old[p] = out[i] /\ old[q] = out[j]

\* C9 as amended: the items whose key occurs only in old appear unmerged,
\* one per key (the last item of old with that key), in the order in which
\* their keys first occur in old.
C9_OldOnlyInFirstKeyOrder ==
    crPc = "done" =>
       LET ks == Restrict(FirstKeys(old), OldOnlyKeys)
       IN  /\ Restrict(OutKeys, OldOnlyKeys) = ks
           /\ \A i \in OldOnlyAt : out[i] = LastWithKey(old, OutKeys[i])
           /\ \A i \in 1 .. Len(calls) :
                 ApplyKey(key, calls[i][1]) \notin OldOnlyKeys

\* a finished run with two old-only keys, one of them repeated in old, and a
\* key of new between them
C9_Witness ==
    /\ crPc = "done"
    /\ Cardinality(OldOnlyKeys) >= 2
    /\ \E p, q \in 1 .. Len(old) :
          /\ p < q
          /\ old[p] # old[q]
          /\ ApplyKey(key, old[p]) = ApplyKey(key, old[q])
          /\ ApplyKey(key, old[p]) \in OldOnlyKeys
    /\ new # << >>

\* C10: the items whose key occurs in new, merged or not, appear in the
\* relative order of their keys in new, for truthy and falsy items alike.
C10_NewKeysInNewOrder ==
    crPc = "done" => Restrict(OutKeys, KeySet(new)) = FirstKeys(new)

\* C11: merge is invoked exactly once for every key that occurs in both old
\* and new, whatever the order of the keys in either input, never for a key
\* of only one input and never with the missing sentinel as an argument.
C11_MergeOncePerSharedKey ==
    crPc = "done" =>
       /\ Len(calls) = Cardinality(BothKeys)
       /\ \A k \in BothKeys :
             Cardinality({i \in 1 .. Len(calls) : ApplyKey(key, calls[i][1]) = k}) = 1
       /\ \A i \in 1 .. Len(calls) :
             /\ calls[i][1] # missing
             /\ calls[i][2] # missing
             /\ ApplyKey(key, calls[i][1]) \in BothKeys
             /\ ApplyKey(key, calls[i][2]) = ApplyKey(key, calls[i][1])

\* a finished run in which the shared keys come in different orders in old
\* and new, one of them was merged while being flushed, and a key of new
\* alone was flushed unmerged
C11_Witness ==
    /\ crPc = "done"
    /\ Len(calls) >= 2
    /\ Restrict(FirstKeys(old), BothKeys) # Restrict(FirstKeys(new), BothKeys)
    /\ KeySet(new) \ KeySet(old) # {}
    /\ Len(out) > Len(calls)

(***************************************************************************)
(* Properties of the call-counted predicates                               *)
(***************************************************************************)
\* C12: a Count(n) with finite n >= 0 returns True on exactly its first n
\* calls, False on call n + 1 and raises ValueError on every later call.
C12_CountTrueNTimesThenFalseThenError ==
    predClass \in {"Count", "CountUtil"} =>
       \A i \in 1 .. Len(history) :
          history[i].outcome = IF i <= limit THEN "True"
                               ELSE IF i = limit + 1 THEN "False"
                               ELSE "ValueError"

\* the same of the Count of jaraco/itertools.py alone, and of both classes
\* for n >= 1
CountOfItertoolsCounts ==
    (predClass = "Count" \/ (predClass = "CountUtil" /\ limit >= 1)) =>
       \A i \in 1 .. Len(history) :
          history[i].outcome = IF i <= limit THEN "True"
                               ELSE IF i = limit + 1 THEN "False"
                               ELSE "ValueError"

\* C13: once a LessThanNBlanks(n) or LessThanNConsecutiveBlanks(n) has
\* returned False, every later call raises ValueError, whatever its argument.
C13_AfterFalseAlwaysError ==
    predClass \in {"LessThanNBlanks", "LessThanNConsecutiveBlanks"} =>
       \A i, j \in 1 .. Len(history) :
          (i < j /\ history[i].outcome = "False") => history[j].outcome = "ValueError"

\* the number of blank arguments that end the first i calls in a row
RECURSIVE RunLength(_)
RunLength(i) ==
    IF i = 0 \/ history[i].arg # "" THEN 0 ELSE 1 + RunLength(i - 1)

\* the first i arguments hold a run of n blanks
HasRun(i, n) == \E j \in 1 .. i : RunLength(j) >= n

\* the calls that itertools.takewhile makes: it stops calling the predicate
\* at the first call that does not return True
CalledByTakewhile(i) == \A j \in 1 .. (i - 1) : history[j].outcome = "True"

\* C14: a LessThanNConsecutiveBlanks(n), n >= 1, returns True until the n-th
\* blank of an unbroken run, where it returns False; a non-blank argument
\* resets the run.  So takewhile keeps exactly the longest prefix of its
\* input without a run of n blanks.
C14_ConsecutiveBlanksKeepsLongestPrefix ==
    (predClass = "LessThanNConsecutiveBlanks" /\ limit >= 1) =>
       \A i \in 1 .. Len(history) :
          CalledByTakewhile(i) =>
             /\ history[i].outcome = IF RunLength(i) < limit THEN "True" ELSE "False"
             /\ ~HasRun(i - 1, limit)
             /\ history[i].outcome = "False" <=> HasRun(i, limit)

\* a run of blanks was broken by a non-blank item, and a later run of n >= 2
\* blanks made the predicate return False
C14_Witness ==
    /\ predClass = "LessThanNConsecutiveBlanks"
    /\ limit >= 2
    /\ \E i \in 3 .. Len(history) :
          /\ CalledByTakewhile(i)
          /\ history[i].outcome = "False"
          /\ \E j, k \in 1 .. i : j < k /\ history[j].arg = "" /\ history[k].arg = "x"

C16_MaybeSingleRaises ==
    unResult.op = "maybe_single" =>
       IF Len(unInput.items) = 1
       THEN unResult.outcome = "item" /\ unResult.item = unInput.items[1]
       ELSE unResult.outcome = "ValueError"

\* C16 as amended: maybe_single returns the item of a sequence of exactly
\* one item and the sequence itself otherwise; it signals no error.
C16_MaybeSingleReturnsSequence ==
    unResult.op = "maybe_single" =>
       IF Len(unInput.items) = 1
       THEN unResult.outcome = "item" /\ unResult.item = unInput.items[1]
       ELSE unResult.outcome = "sequence"

\* maybe_single got two items and one got none back as they were
C16_Witness ==
    /\ unResult.op = "maybe_single"
    /\ unResult.outcome = "sequence"
    /\ Len(unInput.items) >= 2

(***************************************************************************)
(* Properties of the chunking helpers                                      *)
(***************************************************************************)
RECURSIVE ConcatItems(_)
\* the items of the chunks, concatenated
ConcatItems(cs) ==
    IF cs = << >> THEN << >> ELSE cs[1].items \o ConcatItems(Tail(cs))

\* chunkGenerator was handed a string, which it refuses with TypeError
ChRefused == chImpl = "chunkGenerator" /\ chInput.type = "str"

DupSorted(s) ==
    \A i \in 1 .. Len(s) - 1 : DupKey(dupKey, s[i]) <= DupKey(dupKey, s[i + 1])

DupKeysOf(s) == {DupKey(dupKey, s[i]) : i \in 1 .. Len(s)}

\* the items of s whose key is k, in the order of s
DupWithKey(s, k) == SelectSeq(s, LAMBDA x : DupKey(dupKey, x) = k)

\* C18: for a and b each sorted by key, duplicates(a, b, key=key) reports
\* every key of both a and b exactly once, as the tuple of the matching
\* items of a and of b, and never a key of only one of the two, also when
\* that sequence repeats the key.
C18_DuplicatesReportsSharedKeysOnly ==
    (dupPc = "done" /\ DupSorted(dupA) /\ DupSorted(dupB)) =>
       /\ \A k \in DupKeysOf(dupA) \cap DupKeysOf(dupB) :
             /\ Cardinality({i \in 1 .. Len(dupOut) :
                               DupKey(dupKey, dupOut[i][1]) = k}) = 1
             /\ \E i \in 1 .. Len(dupOut) :
                   dupOut[i] = DupWithKey(dupA, k) \o DupWithKey(dupB, k)
       /\ \A i \in 1 .. Len(dupOut) :
             DupKey(dupKey, dupOut[i][1]) \in DupKeysOf(dupA) \cap DupKeysOf(dupB)

\* what does hold: the shared keys are reported once each with the items of
\* a and then of b, and a reported key is shared or repeated in one sequence
C18_SharedKeysReportedOnce ==
    (dupPc = "done" /\ DupSorted(dupA) /\ DupSorted(dupB)) =>
       /\ \A k \in DupKeysOf(dupA) \cap DupKeysOf(dupB) :
             /\ Cardinality({i \in 1 .. Len(dupOut) :
                               DupKey(dupKey, dupOut[i][1]) = k}) = 1
             /\ \E i \in 1 .. Len(dupOut) :
                   dupOut[i] = DupWithKey(dupA, k) \o DupWithKey(dupB, k)
       /\ \A i \in 1 .. Len(dupOut) :
             Len(DupWithKey(dupA \o dupB, DupKey(dupKey, dupOut[i][1]))) > 1

(***************************************************************************)
(* Properties of partition_items                                           *)
(***************************************************************************)
RECURSIVE SumSeq(_)
SumSeq(s) == IF s = << >> THEN 0 ELSE s[1] + SumSeq(Tail(s))

\* n is ceil(c / b): the least n with n * b >= c
IsCeil(n, c, b) == n >= 0 /\ n * b >= c /\ (n > 0 => (n - 1) * b < c)

\* C19: for count >= 0 and bin_size >= 1, partition_items(count, bin_size)
\* returns ceil(count / bin_size) bin sizes that sum to count, none above
\* bin_size, non-increasing and at most 1 apart; (11, 3) gives [3,3,3,2]
\* and (10, 3) gives [3,3,2,2].
C19_PartitionItemsBalanced ==
    piPc = "done" =>
       /\ IsCeil(Len(bins), piCount, bin_size)
       /\ SumSeq(bins) = piCount
       /\ \A i \in 1 .. Len(bins) : bins[i] <= bin_size
       /\ \A i \in 1 .. Len(bins) - 1 : bins[i] >= bins[i + 1]
       /\ \A i, j \in 1 .. Len(bins) : bins[i] - bins[j] <= 1
       /\ (piCount = 11 /\ bin_size = 3) => bins = <<3, 3, 3, 2>>
       /\ (piCount = 10 /\ bin_size = 3) => bins = <<3, 3, 2, 2>>

\* partition_items(11, 3) has returned
C19_Witness == piPc = "done" /\ piCount = 11 /\ bin_size = 3 /\ Len(bins) = 4

(***************************************************************************)
(* Properties of window                                                    *)
(***************************************************************************)
\* C20: for every finite sequence s and all pre_size >= 0 and
\* post_size >= 0, window(s, pre_size, post_size) yields exactly len(s)
\* triples, and the middle element of the i-th triple is the i-th element
\* of s.
C20_WindowYieldsEveryItem ==
    winPc = "done" =>
       /\ Len(winOut) = Len(winInput)
       /\ \A i \in 1 .. Len(winOut) : winOut[i].item = winInput[i]

\* what does hold: the middle elements are a prefix of s, all of s when
\* post_size >= 1 and all but the last item when post_size = 0
C20_WindowMiddlesArePrefix ==
    /\ Len(winOut) <= Len(winInput)
    /\ \A i \in 1 .. Len(winOut) : winOut[i].item = winInput[i]
    /\ winPc = "done" =>
          Len(winOut) = IF post_size >= 1 \/ winInput = << >> THEN Len(winInput)
                        ELSE Len(winInput) - 1

\* the item of s at position p, None where s has no such position
WinAt(s, p) == IF p \in 1 .. Len(s) THEN s[p] ELSE WinNone

\* C21: in every triple (pre, item, post) that window(s, pre_size,
\* post_size) yields, pre has exactly pre_size entries and post exactly
\* post_size, for all pre_size >= 0 and post_size >= 0: pre holds the
\* pre_size items before item and post the post_size items after it, in
\* source order, with None where there is no such item.
C21_WindowPreAndPostSizes ==
    \A i \in 1 .. Len(winOut) :
       /\ Len(winOut[i].pre) = pre_size
       /\ Len(winOut[i].post) = post_size
       /\ \A j \in 1 .. Len(winOut[i].pre) :
             winOut[i].pre[j] = WinAt(winInput, i - pre_size + j - 1)
       /\ \A j \in 1 .. Len(winOut[i].post) :
             winOut[i].post[j] = WinAt(winInput, i + j)

\* what does hold: the claim for pre_size >= 1 and post_size >= 1
C21_WindowSizesWhenPositive ==
    (pre_size >= 1 /\ post_size >= 1) => C21_WindowPreAndPostSizes

(***************************************************************************)
(* Properties of Peekable and takewhile_peek                               *)
(***************************************************************************)
\* how many of the first n calls logged were a next() that returned an item
Drawn(n) ==
    Cardinality({i \in 1 .. n : pkLog[i].op = "next" /\ pkLog[i].outcome = "value"})

\* C22: for a Peekable over s and any interleaving of peek() and next():
\* peek() consumes nothing, the next() calls return the items of s in
\* order, every peek() returns what the following next() returns, and once
\* s is exhausted both signal StopIteration.
C22_PeekableNextAndPeek ==
    ~iteratorIsSelf =>
       /\ iterator = SubSeq(pkInput, Drawn(Len(pkLog)) + 1, Len(pkInput))
       /\ \A i \in 1 .. Len(pkLog) :
             IF Drawn(i - 1) < Len(pkInput)
             THEN /\ pkLog[i].outcome = "value"
                  /\ pkLog[i].value = pkInput[Drawn(i - 1) + 1]
             ELSE pkLog[i].outcome = "StopIteration"

\* peek, peek and next gave the same item, and after the last item both
\* next and peek signalled StopIteration
C22_Witness ==
    /\ twPc = "none"
    /\ Len(pkInput) >= 1
    /\ Len(pkLog) = 5
    /\ pkLog[1].op = "peek" /\ pkLog[2].op = "peek" /\ pkLog[3].op = "next"
    /\ pkLog[3].outcome = "value"
    /\ pkLog[4].op = "next" /\ pkLog[4].outcome = "StopIteration"
    /\ pkLog[5].op = "peek" /\ pkLog[5].outcome = "StopIteration"

\* C23: takewhile_peek(predicate, items) yields the longest prefix of the
\* remaining items that satisfies predicate and does not consume the first
\* non-matching item: the items yielded followed by the items left in the
\* Peekable are the items it held before, in order.
C23_TakewhilePeekLeavesRest ==
    twPc \in {"iter", "done"} =>
       /\ twOut \o iterator = twBefore
       /\ \A i \in 1 .. Len(twOut) : twOut[i] < isSmallLimit
       /\ twPc = "done" => (iterator = << >> \/ ~(iterator[1] < isSmallLimit))

\* takewhile_peek ended at a non-matching item after yielding one, with a
\* matching item further on
C23_Witness ==
    /\ twPc = "done"
    /\ Len(twOut) >= 1
    /\ Len(iterator) >= 2
    /\ ~(iterator[1] < isSmallLimit)
    /\ iterator[2] < isSmallLimit

(***************************************************************************)
(* Properties of Reusable                                                  *)
(***************************************************************************)
\* the call i of the log restarts the iteration: a reset(), or a next()
\* that ran into StopIteration
Restarts(i) == reLog[i].op = "reset" \/ reLog[i].outcome = "StopIteration"

\* the last restart among the first n calls, 0 when there is none
LastRestart(n) ==
    LET rs == {i \in 1 .. n : Restarts(i)}
    IN  IF rs = {} THEN 0 ELSE CHOOSE i \in rs : \A j \in rs : j <= i

\* C24: for a Reusable over s and any sequence of next() and reset()
\* calls: after reset(), and after an iteration ran into StopIteration,
\* the next iteration starts at the first item of s and yields all of s;
\* between two restarts next() returns consecutive items of s.
C24_ReusableRestartsAtFirstItem ==
    /\ reIterator =
          SubSeq(reInput, Len(reLog) - LastRestart(Len(reLog)) + 1, Len(reInput))
    /\ \A i \in 1 .. Len(reLog) :
          reLog[i].op = "next" =>
             LET k == i - 1 - LastRestart(i - 1)
             IN  IF k < Len(reInput)
                 THEN reLog[i].outcome = "value" /\ reLog[i].value = reInput[k + 1]
                 ELSE reLog[i].outcome = "StopIteration"

\* an iteration was reset midway, the next one ran through all of s into
\* StopIteration, and the one after it started at the first item again
C24_Witness ==
    /\ Len(reInput) = 2
    /\ Len(reLog) = 6
    /\ reLog[1].op = "next" /\ reLog[2].op = "reset"
    /\ reLog[3].outcome = "value" /\ reLog[4].outcome = "value"
    /\ reLog[5].outcome = "StopIteration"
    /\ reLog[6].outcome = "value" /\ reLog[6].value = reInput[1]

(***************************************************************************)
(* Properties of make_rows                                                 *)
(***************************************************************************)
\* C25: make_rows(num_columns, seq) yields rows of exactly num_columns
\* entries, for every length of seq and every num_columns >= 1; seq is laid
\* out column by column and the missing cells are None.
C25_MakeRowsHasNumColumns ==
    LET num_rows == NumRows(Len(mrSeq), num_columns)
    IN  /\ \A r \in 1 .. Len(mrOut) :
              /\ Len(mrOut[r]) = num_columns
              /\ \A c \in 1 .. Len(mrOut[r]) :
                    mrOut[r][c] = WinAt(mrSeq, (c - 1) * num_rows + r)
        /\ mrPc = "done" => Len(mrOut) = num_rows

\* what does hold: the layout is column by column with None in the missing
\* cells, in ceil(len / num_rows) columns, which can be fewer than
\* num_columns
C25_MakeRowsColumnMajor ==
    LET num_rows == NumRows(Len(mrSeq), num_columns)
    IN  /\ \A r \in 1 .. Len(mrOut) :
              /\ Len(mrOut[r]) = NumRows(Len(mrSeq), num_rows)
              /\ Len(mrOut[r]) <= num_columns
              /\ \A c \in 1 .. Len(mrOut[r]) :
                    mrOut[r][c] = WinAt(mrSeq, (c - 1) * num_rows + r)
        /\ mrPc = "done" => Len(mrOut) = num_rows

(***************************************************************************)
(* Properties of assert_ordered                                            *)
(***************************************************************************)
\* the positions i whose pair (s[i], s[i + 1]) violates comp
AoViolations ==
    {i \in 1 .. Len(aoInput) - 1 :
        ~Comp(comp, AoKey(aoKey, aoInput[i]), AoKey(aoKey, aoInput[i + 1]))}

AoEnded == aoPc \in {"done", "AssertionError", "UnboundLocalError"}

\* the outcome the iterable calls for: all items, or the items before the
\* first violating pair and AssertionError
AoExpected ==
    IF AoViolations = {}
    THEN aoPc = "done" /\ aoOut = aoInput
    ELSE LET v == CHOOSE i \in AoViolations : \A j \in AoViolations : i <= j
         IN  aoPc = "AssertionError" /\ aoOut = SubSeq(aoInput, 1, v - 1)

\* C26: for every iterable, of any length including 0 and 1, whose
\* adjacent items satisfy comp(key(a), key(b)), assert_ordered yields
\* exactly the items in order; when an adjacent pair violates comp it
\* yields the items before the first violating pair and then raises
\* AssertionError.
C26_AssertOrderedYieldsOrRaises == AoEnded => AoExpected

\* what does hold: the claim for iterables of two items or more
C26_AssertOrderedFromTwoItems ==
    (AoEnded /\ Len(aoInput) >= 2) => AoExpected

(***************************************************************************)
(* Properties of balanced_rows                                             *)
(***************************************************************************)
\* the real items of the rows, concatenated
BrItems == ConcatItems(brOut)

\* the rows hold consecutive items of the iterable, ceil(len / n) rows in
\* all, whose numbers of real items differ by at most one
BrRowsBalanced ==
    /\ brPc \in {"iter", "done"} => BrItems \o brIterable = brInput
    /\ \A i, j \in 1 .. Len(brOut) : Len(brOut[i].items) - Len(brOut[j].items) <= 1
    /\ brPc = "done" =>
          /\ BrItems = brInput
          /\ IsCeil(Len(brOut), Len(brInput), brN)

\* C27: balanced_rows(n, iterable, fillvalue) yields ceil(len / n) rows of
\* exactly n entries each: consecutive items of the iterable followed by
\* fillvalue padding; the real items of the rows concatenated are the
\* iterable, and the numbers of real items per row differ by at most one.
C27_BalancedRowsHaveNEntries ==
    /\ BrRowsBalanced
    /\ \A i \in 1 .. Len(brOut) : Len(brOut[i].items) + brOut[i].fill = brN

\* what does hold: a row short of n items gets one fillvalue, however many
\* it is short of
C27_BalancedRowsOneFill ==
    /\ BrRowsBalanced
    /\ \A i \in 1 .. Len(brOut) :
          brOut[i].fill = IF Len(brOut[i].items) < brN THEN 1 ELSE 0

(***************************************************************************)
(* The partitioner pulls from its upstream on demand only                  *)
(***************************************************************************)
\* what a search for key k pulls from the upstream sq: the items up to and
\* including the first of key k, all of sq when there is none
PulledFor(sq, f, k) ==
    IF FirstWithKey(sq, f, k) > 0 THEN FirstWithKey(sq, f, k) ELSE Len(sq)

\* every queue but the one of key k is as it was
OtherQueuesUnchanged(k) ==
    /\ Len(queues') = Len(queues)
    /\ \A i \in 1 .. Len(queues) : queues[i].key # k => queues'[i] = queues[i]

\* C28: a GroupbySaved advances its upstream only on demand: next() on a
\* sub-queue with a non-empty buffer and gs[k] for a key that has a queue
\* pull nothing and leave every other sub-queue unchanged; gs[k] for an
\* unseen key pulls exactly up to and including the first item of key k;
\* next() on an empty sub-queue pulls exactly up to and including the next
\* item of its own key.
C28_UpstreamPulledOnDemand ==
    [][\A k \in GsKeys :
          /\ (result'.op = "next" /\ result'.arg = k /\ Buffered(queues, k) # << >>) =>
                /\ sequence' = sequence
                /\ result'.pulled = 0
                /\ OtherQueuesUnchanged(k)
                /\ Buffered(queues', k) = Tail(Buffered(queues, k))
          /\ (result'.op = "getitem" /\ result'.arg = k /\ HasQueue(queues, k)) =>
                /\ sequence' = sequence
                /\ result'.pulled = 0
                /\ queues' = queues
          /\ (result'.op = "getitem" /\ result'.arg = k /\ ~HasQueue(queues, k)) =>
                /\ result'.pulled = PulledFor(sequence, func, k)
                /\ sequence' = SubSeq(sequence, result'.pulled + 1, Len(sequence))
          /\ (result'.op = "next" /\ result'.arg = k /\ Buffered(queues, k) = << >>) =>
                /\ result'.pulled = PulledFor(sequence, func, k)
                /\ sequence' = SubSeq(sequence, result'.pulled + 1, Len(sequence))]_vars

\* next() took a buffered item and pulled nothing, with the upstream not
\* yet exhausted and another sub-queue holding an item
C28_Witness ==
    /\ result.op = "next"
    /\ result.outcome = "item"
    /\ result.pulled = 0
    /\ sequence # << >>
    /\ \E i \in 1 .. Len(queues) : queues[i].key # result.arg /\ queues[i].items # << >>

(***************************************************************************)
(* Wrapping a Peekable again                                               *)
(***************************************************************************)
\* C29: for a Peekable p, Peekable(p) is p itself, and afterwards next()
\* and peek() on it still return the remaining items of the underlying
\* sequence in order, exactly as before the call.
C29_RewrapKeepsRemainingItems ==
    \A i \in 1 .. Len(pkLog) :
       IF pkLog[i].op = "Peekable" THEN pkLog[i].outcome = "same"
       ELSE IF Drawn(i - 1) < Len(pkInput)
       THEN /\ pkLog[i].outcome = "value"
            /\ pkLog[i].value = pkInput[Drawn(i - 1) + 1]
       ELSE pkLog[i].outcome = "StopIteration"

\* what does hold: Peekable(p) is p, and from then on every next() and
\* peek() on it ends in RecursionError
C29_RewrapBreaksThePeekable ==
    \A i \in 1 .. Len(pkLog) :
       IF pkLog[i].op = "Peekable" THEN pkLog[i].outcome = "same"
       ELSE IF \E j \in 1 .. (i - 1) : pkLog[j].op = "Peekable"
       THEN pkLog[i].outcome = "RecursionError"
       ELSE IF Drawn(i - 1) < Len(pkInput)
       THEN /\ pkLog[i].outcome = "value"
            /\ pkLog[i].value = pkInput[Drawn(i - 1) + 1]
       ELSE pkLog[i].outcome = "StopIteration"

(***************************************************************************)
(* collate_revs of a sequence with itself                                  *)
(***************************************************************************)
CrDistinct(x) == \A i, j \in 1 .. Len(x) : x[i] = x[j] => i = j

\* C30: for every sequence x of distinct items, truthy or falsy, with the
\* identity key and the default merge, collate_revs(x, x) yields exactly
\* x in the same order.
C30_CollateSelfIsIdentity ==
    (crPc = "done" /\ key = "id" /\ old = new /\ CrDistinct(old)) => out = old

\* what does hold: the claim for sequences of truthy items
C30_CollateSelfTruthy ==
    (/\ crPc = "done" /\ key = "id" /\ old = new /\ CrDistinct(old)
     /\ \A i \in 1 .. Len(old) : Truthy(old[i])) => out = old
====
